---- MODULE Spec2Model ----
(***************************************************************************)
(* Mission Control: the mission lifecycle / retry state machine, the       *)
(* validators, the attempt counter and the persistent store (debounced     *)
(* flush, atomic write with backup) of ufo23005/mission-control-mcp.       *)
(*                                                                         *)
(* Conventions.  A JavaScript value of type number | string | undefined is *)
(* a one-field record [num |-> n], [str |-> s] or [undef |-> TRUE].  A     *)
(* Date is the integer reading of the clock `now`; an unset optional Date  *)
(* is NoDate.  A string that the code inspects character by character      *)
(* (the output of an attempt, a keyword) is a sequence of one-character    *)
(* strings.  A message built from a template is a record naming the        *)
(* template and the values substituted into it.                            *)
(***************************************************************************)
EXTENDS Integers, Sequences, FiniteSets, TLC

(***************************************************************************)
(* Bounds of the model.                                                    *)
(***************************************************************************)
MaxN == 2          \* largest maxAttempts a definition request carries
MaxClock == 1      \* the clock reads 0..MaxClock
MaxMissions == 1   \* mission ids the id generator hands out to the lifecycle calls
MaxFlushers == 2   \* saveState executions that can be in flight together
MaxSaves == 2      \* calls of saveState in one run
\* largest maxAttempts an AttemptCounter of its own is made with
MaxLimit == 5
\* increments after which a counter is left alone
MaxCount == 7
MaxIssued == 2     \* mission ids the id generator hands out where several missions matter

(***************************************************************************)
(* JavaScript values.                                                      *)
(***************************************************************************)
Undefined == [undef |-> TRUE]
Num(n) == [num |-> n]
Str(s) == [str |-> s]
Txt(s) == [txt |-> s]
Bool(b) == [bool |-> b]
IsNumber(v) == DOMAIN v = {"num"}
IsText(v) == DOMAIN v = {"txt"}
IsBoolean(v) == DOMAIN v = {"bool"}
IsUndefined(v) == DOMAIN v = {"undef"}
NoDate == -1

Abs(n) == IF n < 0 THEN -n ELSE n
Max(a, b) == IF a >= b THEN a ELSE b

(***************************************************************************)
(* Character strings.                                                      *)
(***************************************************************************)
Digits == {"0", "1", "2", "3", "4", "5", "6", "7", "8", "9"}
IsDigit(c) == c \in Digits
DigitVal(c) ==
  CASE c = "0" -> 0 [] c = "1" -> 1 [] c = "2" -> 2 [] c = "3" -> 3
    [] c = "4" -> 4 [] c = "5" -> 5 [] c = "6" -> 6 [] c = "7" -> 7
    [] c = "8" -> 8 [] c = "9" -> 9
IsSpace(c) == c \in {" ", "\n", "\t"}

\* String.prototype.toLowerCase on one character of the model's alphabet
LowerChar(c) ==
  CASE c = "A" -> "a" [] c = "C" -> "c" [] c = "D" -> "d" [] c = "E" -> "e"
    [] c = "I" -> "i" [] c = "K" -> "k" [] c = "N" -> "n" [] c = "O" -> "o"
    [] c = "R" -> "r" [] c = "S" -> "s" [] c = "T" -> "t" [] c = "U" -> "u"
    [] c = "X" -> "x" [] OTHER -> c
toLowerCase(s) == [i \in 1..Len(s) |-> LowerChar(s[i])]

\* the literal lit occurs in text at position i (ignoring case when ci)
MatchesAt(text, i, lit, ci) ==
  /\ i >= 1
  /\ i + Len(lit) - 1 <= Len(text)
  /\ \A k \in 1..Len(lit) :
       IF ci THEN LowerChar(text[i + k - 1]) = LowerChar(lit[k])
             ELSE text[i + k - 1] = lit[k]

\* String.prototype.includes
includes(text, kw) == \E i \in 1..(Len(text) + 1) : MatchesAt(text, i, kw, FALSE)

\* end (exclusive) of the longest run of characters satisfying P from i
RECURSIVE RunEnd(_, _, _)
RunEnd(text, i, Cls) ==
  IF i <= Len(text) /\ text[i] \in Cls THEN RunEnd(text, i + 1, Cls) ELSE i

\* value of the decimal digits text[i..j-1]
RECURSIVE DigitsValue(_, _, _)
DigitsValue(text, i, j) ==
  IF j <= i THEN 0 ELSE DigitsValue(text, i, j - 1) * 10 + DigitVal(text[j - 1])

Alphabet == Digits \cup {" ", "\n", "\t", ":", "-", ".", "a", "c", "d", "e", "i", "k", "n", "o", "r",
                         "s", "t", "u", "x", "A", "C", "D", "E", "I", "K", "N", "O",
                         "R", "S", "T", "U", "X", "F", "l"}
SpaceOrColon == {" ", "\n", "\t", ":"}
Spaces == {" ", "\n", "\t"}

(***************************************************************************)
(* Validators.  validate returns a ValidationResult record, or Thrown when *)
(* the code throws.                                                        *)
(***************************************************************************)
Thrown == [threw |-> TRUE]
DidThrow(r) == "threw" \in DOMAIN r

Msg(tpl, a, op, b) == [tpl |-> tpl, a |-> a, op |-> op, b |-> b]

createResult(passed, message, actualValue, expectedValue, t) ==
  [passed |-> passed, actualValue |-> actualValue, expectedValue |-> expectedValue,
   message |-> message, timestamp |-> t]

\* start positions of a match of /-?\d+/ in text
NumberStarts(text) ==
  { i \in 1..Len(text) :
      \/ IsDigit(text[i])
      \/ text[i] = "-" /\ i + 1 <= Len(text) /\ IsDigit(text[i + 1]) }

Min(S) == CHOOSE m \in S : \A k \in S : m <= k

\* NumericValidator.extractNumber: parseFloat of the leftmost match of
\* /-?\d+\.?\d*/ ; the outputs of the model carry no fractional digits, so
\* the value is that of the integer part.  Undefined stands for null.
extractNumber(text) ==
  IF NumberStarts(text) = {} THEN Undefined
  ELSE LET i == Min(NumberStarts(text))
           neg == text[i] = "-"
           b == IF neg THEN i + 1 ELSE i
           e == RunEnd(text, b, Digits)
           v == DigitsValue(text, b, e)
       IN  Num(IF neg THEN -v ELSE v)

\* 0.0001 as a fraction
EpsilonNum == 1
EpsilonDen == 10000

KnownOperators == {">", "<", ">=", "<=", "==", "!="}

\* decimals are counted in units of 1 / DecimalScale, one digit finer than
\* the epsilon
DecimalScale == 10 * EpsilonDen

\* mutant: EQUAL and NOT_EQUAL compare exactly
compareScaled_exact(scale, actual, operator, threshold) ==
  CASE operator = ">" -> actual > threshold
    [] operator = "<" -> actual < threshold
    [] operator = ">=" -> actual >= threshold
    [] operator = "<=" -> actual <= threshold
    [] operator = "==" -> actual = threshold
    [] operator = "!=" -> actual # threshold

\* NumericValidator.compare on numbers counted in units of 1 / scale
compareScaled(scale, actual, operator, threshold) ==
  CASE operator = ">" -> actual > threshold
    [] operator = "<" -> actual < threshold
    [] operator = ">=" -> actual >= threshold
    [] operator = "<=" -> actual <= threshold
    [] operator = "==" -> Abs(actual - threshold) * EpsilonDen < EpsilonNum * scale
    [] operator = "!=" -> Abs(actual - threshold) * EpsilonDen >= EpsilonNum * scale

\* NumericValidator.compare on whole numbers
compare(actual, operator, threshold) == compareScaled(1, actual, operator, threshold)

negateOperator(operator) ==
  CASE operator = ">" -> "<=" [] operator = "<" -> ">=" [] operator = ">=" -> "<"
    [] operator = "<=" -> ">" [] operator = "==" -> "!=" [] operator = "!=" -> "=="

NumericValidate(criteria, output, value, t) ==
  LET actualValue == IF IsNumber(value) THEN value ELSE extractNumber(output)
  IN  IF IsUndefined(actualValue)
      THEN createResult(FALSE, Msg("Failed to extract numeric value from output", Undefined, "", Undefined),
                        Undefined, criteria.threshold, t)
      ELSE IF criteria.operator.str \notin KnownOperators
      THEN Thrown
      ELSE LET passed == compare(actualValue.num, criteria.operator.str, criteria.threshold.num)
           IN  createResult(passed,
                 IF passed
                 THEN Msg("Validation passed: ", actualValue, criteria.operator.str, criteria.threshold)
                 ELSE Msg("Validation failed: ", actualValue,
                          negateOperator(criteria.operator.str), criteria.threshold),
                 actualValue, criteria.threshold, t)

\* start positions of the matches of /lit[:\s]+(\d+)/i in text
PrefixedCodeMatches(text, lit) ==
  { i \in 1..Len(text) :
      /\ MatchesAt(text, i, lit, TRUE)
      /\ LET s == i + Len(lit)
             d == RunEnd(text, s, SpaceOrColon)
         IN  d > s /\ d <= Len(text) /\ IsDigit(text[d]) }

PrefixedCodeValue(text, lit) ==
  LET i == Min(PrefixedCodeMatches(text, lit))
      d == RunEnd(text, i + Len(lit), SpaceOrColon)
  IN  DigitsValue(text, d, RunEnd(text, d, Digits))

\* matches of /exit\s*code[:\s]+(\d+)/i
ExitCodeMatches(text) ==
  { i \in 1..Len(text) :
      /\ MatchesAt(text, i, <<"e", "x", "i", "t">>, TRUE)
      /\ LET c == RunEnd(text, i + 4, Spaces)
         IN  /\ MatchesAt(text, c, <<"c", "o", "d", "e">>, TRUE)
             /\ LET s == c + 4
                    d == RunEnd(text, s, SpaceOrColon)
                IN  d > s /\ d <= Len(text) /\ IsDigit(text[d]) }

ExitCodeMatchValue(text) ==
  LET i == Min(ExitCodeMatches(text))
      c == RunEnd(text, i + 4, Spaces)
      d == RunEnd(text, c + 4, SpaceOrColon)
  IN  DigitsValue(text, d, RunEnd(text, d, Digits))

\* ExitCodeValidator.extractExitCode: the first pattern that matches wins
extractExitCode(text) ==
  IF ExitCodeMatches(text) # {} THEN Num(ExitCodeMatchValue(text))
  ELSE IF PrefixedCodeMatches(text, <<"r", "e", "t", "u", "r", "n", "e", "d">>) # {}
  THEN Num(PrefixedCodeValue(text, <<"r", "e", "t", "u", "r", "n", "e", "d">>))
  ELSE IF PrefixedCodeMatches(text, <<"s", "t", "a", "t", "u", "s">>) # {}
  THEN Num(PrefixedCodeValue(text, <<"s", "t", "a", "t", "u", "s">>))
  ELSE IF Len(text) >= 1 /\ RunEnd(text, 1, Digits) = Len(text) + 1
  THEN Num(DigitsValue(text, 1, Len(text) + 1))
  ELSE Undefined

ExitCodeValidate(criteria, output, value, t) ==
  LET actualCode == IF IsNumber(value) THEN value ELSE extractExitCode(output)
  IN  IF IsUndefined(actualCode)
      THEN createResult(FALSE, Msg("Failed to extract exit code from output", Undefined, "", Undefined),
                        Undefined, criteria.expectedCode, t)
      ELSE LET passed == actualCode = criteria.expectedCode
           IN  createResult(passed,
                 IF passed
                 THEN Msg("Command succeeded with exit code ", actualCode, "", Undefined)
                 ELSE Msg("Command failed with exit code ", actualCode, "expected", criteria.expectedCode),
                 actualCode, criteria.expectedCode, t)

\* criteria.caseSensitive ?? true
NullishOr(v, d) == IF IsUndefined(v) THEN d ELSE v

KeywordValidate(criteria, output, value, t) ==
  LET caseSensitive == NullishOr(criteria.caseSensitive, Bool(TRUE)).bool
      searchText == IF caseSensitive THEN output ELSE toLowerCase(output)
      searchKeyword == IF caseSensitive THEN criteria.keyword.txt
                       ELSE toLowerCase(criteria.keyword.txt)
      contains == includes(searchText, searchKeyword)
      passed == IF criteria.mustContain.bool THEN contains ELSE ~contains
  IN  createResult(passed,
        Msg(IF passed
            THEN (IF criteria.mustContain.bool THEN "Output contains required keyword: "
                  ELSE "Output correctly excludes keyword: ")
            ELSE (IF criteria.mustContain.bool THEN "Output missing required keyword: "
                  ELSE "Output unexpectedly contains keyword: "),
            criteria.keyword, "", Undefined),
        Str(IF contains THEN "found" ELSE "not found"), criteria.keyword, t)

\* SubmitAttemptTool.getValidator followed by validator.validate
Validate(criteria, output, value, t) ==
  CASE criteria.strategy = "NUMERIC" -> NumericValidate(criteria, output, value, t)
    [] criteria.strategy = "EXIT_CODE" -> ExitCodeValidate(criteria, output, value, t)
    [] criteria.strategy = "KEYWORD" -> KeywordValidate(criteria, output, value, t)
    [] OTHER -> Thrown

(***************************************************************************)
(* AttemptCounter.  A counter is [currentAttempt, maxAttempts,             *)
(* warnThreshold]; an operation that throws yields Thrown.                 *)
(***************************************************************************)
DefaultWarnThreshold == 3
DefaultMaxAttempts == 10

\* mutant: the restored counter is left at zero
fromCurrentAttempt_notRestored(currentAttempt, maxAttempts) ==
  IF currentAttempt < 0 THEN Thrown
  ELSE IF currentAttempt > maxAttempts THEN Thrown
  ELSE [currentAttempt |-> 0, maxAttempts |-> maxAttempts,
        warnThreshold |-> DefaultWarnThreshold]

fromCurrentAttempt(currentAttempt, maxAttempts) ==
  IF currentAttempt < 0 THEN Thrown
  ELSE IF currentAttempt > maxAttempts THEN Thrown
  ELSE [currentAttempt |-> currentAttempt, maxAttempts |-> maxAttempts,
        warnThreshold |-> DefaultWarnThreshold]

getRemainingAttempts(counter) == Max(0, counter.maxAttempts - counter.currentAttempt)

\* mutant: the limit is hit one attempt early
increment_offByOne(counter) ==
  LET c == [counter EXCEPT !.currentAttempt = @ + 1]
  IN  IF c.currentAttempt >= c.maxAttempts
      THEN [counter |-> c, threw |-> TRUE, warnings |-> 0]
      ELSE [counter |-> c, threw |-> FALSE, warnings |-> 0]

\* increment that also warns when nothing remains
increment_warnAtZero(counter) ==
  LET c == [counter EXCEPT !.currentAttempt = @ + 1]
      remaining == getRemainingAttempts(c)
  IN  IF c.currentAttempt > c.maxAttempts
      THEN [counter |-> c, threw |-> TRUE, warnings |-> 0]
      ELSE [counter |-> c, threw |-> FALSE,
            warnings |-> IF remaining <= c.warnThreshold THEN 1 ELSE 0]

\* increment: the counter after the call, whether it threw
\* MaxAttemptsExceededError, and the number of warnings it logged
increment(counter) ==
  LET c == [counter EXCEPT !.currentAttempt = @ + 1]
      remaining == getRemainingAttempts(c)
  IN  IF c.currentAttempt > c.maxAttempts
      THEN [counter |-> c, threw |-> TRUE, warnings |-> 0]
      ELSE [counter |-> c, threw |-> FALSE,
            warnings |-> IF remaining <= c.warnThreshold /\ remaining > 0 THEN 1 ELSE 0]

\* no AttemptCounter has been constructed
NoCounter == [currentAttempt |-> -1, maxAttempts |-> -1, warnThreshold |-> -1]

\* the AttemptCounter constructor: config.warnThreshold ?? 3
AttemptCounter(maxAttempts, warnThreshold) ==
  [currentAttempt |-> 0, maxAttempts |-> maxAttempts,
   warnThreshold |-> IF warnThreshold = Undefined THEN DefaultWarnThreshold
                     ELSE warnThreshold.num]

\* fromCurrentAttempt that accepts any count that is not negative
fromCurrentAttemptConfig_unchecked(currentAttempt, maxAttempts, warnThreshold) ==
  IF currentAttempt < 0 THEN Thrown
  ELSE [AttemptCounter(maxAttempts, warnThreshold) EXCEPT !.currentAttempt = currentAttempt]

\* fromCurrentAttempt with a config that may carry warnThreshold
fromCurrentAttemptConfig(currentAttempt, maxAttempts, warnThreshold) ==
  IF currentAttempt < 0 THEN Thrown
  ELSE IF currentAttempt > maxAttempts THEN Thrown
  ELSE [AttemptCounter(maxAttempts, warnThreshold) EXCEPT !.currentAttempt = currentAttempt]

(***************************************************************************)
(* Missions.                                                               *)
(***************************************************************************)
PENDING == "PENDING"
IN_PROGRESS == "IN_PROGRESS"
COMPLETED == "COMPLETED"
FAILED == "FAILED"
ABORTED == "ABORTED"
MissionStates == {PENDING, IN_PROGRESS, COMPLETED, FAILED, ABORTED}
TerminalStates == {COMPLETED, FAILED, ABORTED}

MAX_OUTPUT_LENGTH == 1048576
TruncationMarker == <<"\n", ".", ".", ".", " ", "(", "t", "r", "u", "n", "c", "a", "t", "e", "d", ")">>

\* DefineMissionTool.parseCriteria: the criteria record built for a known
\* strategy; fields a strategy does not have are Undefined
parseCriteria(strategy, criteriaData) ==
  CASE strategy = "NUMERIC" ->
         [strategy |-> "NUMERIC", operator |-> criteriaData.operator,
          threshold |-> criteriaData.threshold, expectedCode |-> Undefined,
          keyword |-> Undefined, mustContain |-> Undefined, caseSensitive |-> Undefined]
    [] strategy = "EXIT_CODE" ->
         [strategy |-> "EXIT_CODE", operator |-> Undefined, threshold |-> Undefined,
          expectedCode |-> NullishOr(criteriaData.expectedCode, Num(0)),
          keyword |-> Undefined, mustContain |-> Undefined, caseSensitive |-> Undefined]
    [] strategy = "KEYWORD" ->
         [strategy |-> "KEYWORD", operator |-> Undefined, threshold |-> Undefined,
          expectedCode |-> Undefined, keyword |-> criteriaData.keyword,
          mustContain |-> NullishOr(criteriaData.mustContain, Bool(TRUE)),
          caseSensitive |-> NullishOr(criteriaData.caseSensitive, Bool(TRUE))]

KnownStrategies == {"NUMERIC", "EXIT_CODE", "KEYWORD"}

\* JavaScript truthiness of an operator value
Truthy(v) ==
  CASE IsUndefined(v) -> FALSE
    [] DOMAIN v = {"str"} -> v.str # ""
    [] OTHER -> TRUE

\* MissionDefiner.validateCriteria: TRUE when it returns, FALSE when it
\* throws InvalidCriteriaError
validateCriteria(criteria) ==
  CASE criteria.strategy = "NUMERIC" ->
         IsNumber(criteria.threshold) /\ Truthy(criteria.operator)
    [] criteria.strategy = "EXIT_CODE" -> IsNumber(criteria.expectedCode)
    [] criteria.strategy = "KEYWORD" ->
         /\ IsText(criteria.keyword)
         /\ Len(criteria.keyword.txt) > 0
         /\ IsBoolean(criteria.mustContain)
    [] OTHER -> FALSE

\* MissionDefiner.defineMission, for criteria that validateCriteria accepts
defineMission(id, criteria, maxAttempts, t) ==
  [config |-> [id |-> id, criteria |-> criteria,
               maxAttempts |-> NullishOr(maxAttempts, Num(DefaultMaxAttempts))],
   state |-> PENDING, createdAt |-> t, updatedAt |-> t, attempts |-> <<>>,
   currentAttempt |-> 0, completedAt |-> NoDate, success |-> Undefined,
   errorMessage |-> Undefined]

(***************************************************************************)
(* Inputs of the tool calls.                                               *)
(***************************************************************************)
CriteriaData(operator, threshold, expectedCode, keyword, mustContain, caseSensitive) ==
  [operator |-> operator, threshold |-> threshold, expectedCode |-> expectedCode,
   keyword |-> keyword, mustContain |-> mustContain, caseSensitive |-> caseSensitive]

\* the criteria of the mission objects a caller of the store builds
CallerCriteria ==
  [strategy |-> "EXIT_CODE", operator |-> Undefined, threshold |-> Undefined,
   expectedCode |-> Num(0), keyword |-> Undefined, mustContain |-> Undefined,
   caseSensitive |-> Undefined]

\* definition requests with each required field of each variant present,
\* absent, and of another type
CriteriaInputs ==
  { <<"NUMERIC", CriteriaData(Str(">"), Num(100), Undefined, Undefined, Undefined, Undefined)>>,
    <<"NUMERIC", CriteriaData(Str(">"), Undefined, Undefined, Undefined, Undefined, Undefined)>>,
    <<"NUMERIC", CriteriaData(Str(">"), Str("100"), Undefined, Undefined, Undefined, Undefined)>>,
    <<"NUMERIC", CriteriaData(Undefined, Num(100), Undefined, Undefined, Undefined, Undefined)>>,
    <<"NUMERIC", CriteriaData(Num(5), Num(100), Undefined, Undefined, Undefined, Undefined)>>,
    <<"EXIT_CODE", CriteriaData(Undefined, Undefined, Num(0), Undefined, Undefined, Undefined)>>,
    <<"EXIT_CODE", CriteriaData(Undefined, Undefined, Undefined, Undefined, Undefined, Undefined)>>,
    <<"EXIT_CODE", CriteriaData(Undefined, Undefined, Str("0"), Undefined, Undefined, Undefined)>>,
    <<"KEYWORD", CriteriaData(Undefined, Undefined, Undefined, Txt(<<"o", "k">>), Bool(TRUE), Undefined)>>,
    <<"KEYWORD", CriteriaData(Undefined, Undefined, Undefined, Undefined, Bool(TRUE), Undefined)>>,
    <<"KEYWORD", CriteriaData(Undefined, Undefined, Undefined, Num(1), Bool(TRUE), Undefined)>>,
    <<"KEYWORD", CriteriaData(Undefined, Undefined, Undefined, Txt(<<"o", "k">>), Undefined, Undefined)>>,
    <<"KEYWORD", CriteriaData(Undefined, Undefined, Undefined, Txt(<<"o", "k">>), Str("yes"), Undefined)>> }

\* definition requests of the lifecycle specification: <<strategy, criteriaData>>
DefineInputs ==
  { <<"NUMERIC", CriteriaData(Str(">"), Num(100), Undefined, Undefined, Undefined, Undefined)>>,
    <<"NUMERIC", CriteriaData(Str("=~"), Num(100), Undefined, Undefined, Undefined, Undefined)>>,
    <<"NUMERIC", CriteriaData(Str(">"), Undefined, Undefined, Undefined, Undefined, Undefined)>>,
    <<"EXIT_CODE", CriteriaData(Undefined, Undefined, Num(0), Undefined, Undefined, Undefined)>>,
    <<"KEYWORD", CriteriaData(Undefined, Undefined, Undefined, Txt(<<>>), Bool(TRUE), Undefined)>>,
    <<"REGEX", CriteriaData(Undefined, Undefined, Undefined, Undefined, Undefined, Undefined)>> }

MaxAttemptsInputs == {Num(n) : n \in (-1)..MaxN}

\* attempts of the lifecycle specification: <<output, value>>
SubmitInputs ==
  { << <<"F">>, Num(1) >>, << <<"o", "k">>, Num(150) >>, << <<"0">>, Undefined >>,
    << <<"F">>, Undefined >> }
AbortReasons == { Undefined, Str("stop") }

\* the requests of the full specification, which follows every snapshot
\* through the state directory
StoreDefineInputs ==
  { <<"NUMERIC", CriteriaData(Str(">"), Num(100), Undefined, Undefined, Undefined, Undefined)>>,
    <<"REGEX", CriteriaData(Undefined, Undefined, Undefined, Undefined, Undefined, Undefined)>> }
StoreSubmitInputs == { << <<"o", "k">>, Num(150) >> }

\* ids a caller can name: the ids the generator hands out, and 0, which it
\* never hands out
MissionIds == 0..MaxMissions

(***************************************************************************)
(* State.                                                                  *)
(***************************************************************************)
VARIABLES
  missions,          \* StateManager.state.missions: id -> Mission
  order,             \* insertion order of the keys of the missions Map
  issued,            \* number of ids the id generator has handed out
  now,               \* the clock
  response,          \* the result of the last call
  counter,           \* an AttemptCounter a caller holds, or NoCounter
  enablePersistence, \* StateManager.state.config.enablePersistence
  completedRetentionDays, \* StateManager.state.config.completedRetentionDays
  failedRetentionDays,    \* StateManager.state.config.failedRetentionDays
  handlersInstalled, \* setupShutdownHandlers has registered the cleanup handler
  isDirty,           \* StateManager.isDirty
  saveTimer,         \* deadline of the pending debounce timer, or NoTimer
  isShuttingDown,    \* StateManager.isShuttingDown
  files,             \* the state directory: state.json, state.json.tmp, state.json.bak
  flushers,          \* the saveState executions in flight
  saveCalls          \* number of calls of saveState so far

storeVars == <<missions, order>>
persistVars == <<isDirty, saveTimer, isShuttingDown, files, flushers, saveCalls>>
\* what StateManager.create fixes for the life of the instance
setupVars == <<enablePersistence, completedRetentionDays, failedRetentionDays, handlersInstalled>>
vars == <<missions, order, issued, now, response, setupVars, counter,
          isDirty, saveTimer, isShuttingDown, files, flushers, saveCalls>>

NoTimer == -1
\* SAVE_DEBOUNCE_MS, in ticks of the clock (one tick is 1000 ms)
SAVE_DEBOUNCE_TICKS == 1

None == -1

Resp(tool, id, success, error, state, passed, final, message, attempts, remaining, warnings) ==
  [tool |-> tool, missionId |-> id, success |-> success, error |-> error, state |-> state,
   passed |-> passed, final |-> final, message |-> message, attempts |-> attempts,
   remaining |-> remaining, warnings |-> warnings]

\* the result the catch block of a tool builds from a thrown error
ErrorResp(tool, id, error, warnings) ==
  Resp(tool, id, FALSE, error, "", Undefined, Undefined, "", None, None, warnings)

NotFoundMessage == "Mission not found: "
NotInProgressMessage == "Mission is not in progress (current state: "
CannotAbortMessage == "Cannot abort mission in "
MaxAttemptsMessage == "Maximum attempts exceeded"
ExceededMessage == "exceeded maximum attempts"
InvalidCriteriaMessage == "Invalid validation criteria: "
UnknownStrategyMessage == "Unknown strategy: "
MissionExistsMessage == "Mission already exists: "
ValidationFailedMessage == "Validation failed: Unknown operator: "
PersistenceFailedMessage == "State persistence failed"

\* debouncedSave that leaves an armed timer as it is
debouncedSave_noRearm ==
  IF ~enablePersistence \/ isShuttingDown
  THEN UNCHANGED <<isDirty, saveTimer>>
  ELSE /\ isDirty' = TRUE
       /\ saveTimer' = IF saveTimer # NoTimer THEN saveTimer ELSE now + SAVE_DEBOUNCE_TICKS

\* StateManager.debouncedSave
\* mutant: isShuttingDown is not looked at
debouncedSave_ignoresShutdown ==
  IF ~enablePersistence
  THEN UNCHANGED <<isDirty, saveTimer>>
  ELSE isDirty' = TRUE /\ saveTimer' = now + SAVE_DEBOUNCE_TICKS

debouncedSave ==
  IF ~enablePersistence \/ isShuttingDown
  THEN UNCHANGED <<isDirty, saveTimer>>
  ELSE isDirty' = TRUE /\ saveTimer' = now + SAVE_DEBOUNCE_TICKS

RemoveId(seq, id) == SelectSeq(seq, LAMBDA x : x # id)

\* updateMission that stamps updatedAt on every stored mission
updateMission_touchesAll(mission) ==
  /\ missions' = [i \in DOMAIN missions |->
                    IF i = mission.config.id THEN [mission EXCEPT !.updatedAt = now]
                    ELSE [missions[i] EXCEPT !.updatedAt = now]]
  /\ order' = order
  /\ debouncedSave

\* StateManager.updateMission for a mission object of a stored id
updateMission(mission) ==
  /\ missions' = [missions EXCEPT ![mission.config.id] = [mission EXCEPT !.updatedAt = now]]
  /\ order' = order
  /\ debouncedSave

(***************************************************************************)
(* Tool calls.                                                             *)
(***************************************************************************)
\* mutant: a FAILED mission can be aborted
abortRejected_onlyCompleted(mission) == mission.state = COMPLETED

\* AbortMissionTool: "Check if mission can be aborted"
abortRejected(mission) == mission.state = COMPLETED \/ mission.state = FAILED

\* AbortMissionTool: the fields an abort sets
\* mutant: success is left as it was
abortFields_successKept(mission, reason, t) ==
  [mission EXCEPT !.state = ABORTED, !.completedAt = t,
                  !.errorMessage = IF Truthy(reason) THEN reason ELSE Str("Manually aborted")]

abortFields(mission, reason, t) ==
  [mission EXCEPT !.state = ABORTED, !.completedAt = t, !.success = Bool(FALSE),
                  !.errorMessage = IF Truthy(reason) THEN reason ELSE Str("Manually aborted")]

\* mutant: an ABORTED mission accepts attempts
notInProgress_finishedOnly(mission) == mission.state = COMPLETED \/ mission.state = FAILED

\* SubmitAttemptTool: "Check if mission is in valid state"
notInProgress(mission) == mission.state # IN_PROGRESS

\* mutant: the mission is left IN_PROGRESS
failFields_stateKept(mission, t) ==
  [mission EXCEPT !.completedAt = t, !.success = Bool(FALSE),
                  !.errorMessage = Str(MaxAttemptsMessage)]

\* the catch of increment also keeps the counter's overshoot as the count
failFields_countsAttempt(mission, t) ==
  [mission EXCEPT !.state = FAILED, !.completedAt = t, !.success = Bool(FALSE),
                  !.errorMessage = Str(MaxAttemptsMessage), !.currentAttempt = @ + 1]

\* SubmitAttemptTool: the fields the catch of increment sets
failFields(mission, t) ==
  [mission EXCEPT !.state = FAILED, !.completedAt = t, !.success = Bool(FALSE),
                  !.errorMessage = Str(MaxAttemptsMessage)]

\* mutant: the attempt overwrites the last one recorded, as a call working
\* on a stale copy of the mission would
recordAttempt_overwritesLast(mission, attempt, attemptNumber, t) ==
  [mission EXCEPT !.attempts = IF Len(@) = 0 THEN <<attempt>>
                               ELSE [@ EXCEPT ![Len(@)] = attempt],
                  !.currentAttempt = attemptNumber, !.updatedAt = t]

\* mutant: currentAttempt is not updated
recordAttempt_counterKept(mission, attempt, attemptNumber, t) ==
  [mission EXCEPT !.attempts = Append(@, attempt), !.updatedAt = t]

\* SubmitAttemptTool: "Update mission"
recordAttempt(mission, attempt, attemptNumber, t) ==
  [mission EXCEPT !.attempts = Append(@, attempt), !.currentAttempt = attemptNumber,
                  !.updatedAt = t]

\* mutant: the mission is left IN_PROGRESS after a passed validation
completeFields_stateKept(mission, t) ==
  [mission EXCEPT !.completedAt = t, !.success = Bool(TRUE)]

\* mutant: success is not set
completeFields_noSuccess(mission, t) ==
  [mission EXCEPT !.state = COMPLETED, !.completedAt = t]

\* SubmitAttemptTool: the fields a passed validation sets
completeFields(mission, t) ==
  [mission EXCEPT !.state = COMPLETED, !.completedAt = t, !.success = Bool(TRUE)]

\* the request gets past parseCriteria and validateCriteria
Accepted(strategy, criteriaData) ==
  /\ strategy \in KnownStrategies
  /\ validateCriteria(parseCriteria(strategy, criteriaData))

DefineMission(strategy, criteriaData, maxAttempts) ==
  /\ UNCHANGED <<now, setupVars, counter, isShuttingDown, files, flushers, saveCalls>>
  /\ IF strategy \notin KnownStrategies
     THEN /\ response' = ErrorResp("define", None, UnknownStrategyMessage, 0)
          /\ UNCHANGED <<missions, order, issued, isDirty, saveTimer>>
     ELSE LET criteria == parseCriteria(strategy, criteriaData)
              id == issued + 1
              mission == [defineMission(id, criteria, maxAttempts, now) EXCEPT !.state = IN_PROGRESS]
          IN  IF ~validateCriteria(criteria)
              THEN /\ response' = ErrorResp("define", None, InvalidCriteriaMessage, 0)
                   /\ UNCHANGED <<missions, order, issued, isDirty, saveTimer>>
              ELSE /\ issued < MaxIssued
                   /\ issued' = id
                   /\ IF id \in DOMAIN missions
                      THEN /\ response' = ErrorResp("define", id, MissionExistsMessage, 0)
                           /\ UNCHANGED <<missions, order, isDirty, saveTimer>>
                      ELSE /\ missions' = [i \in DOMAIN missions \cup {id} |->
                                             IF i = id THEN mission ELSE missions[i]]
                           /\ order' = Append(order, id)
                           /\ debouncedSave
                           /\ response' = Resp("define", id, TRUE, "", "", Undefined, Undefined,
                                               "Mission created successfully", None, None, 0)

SubmitAttempt(id, output, value) ==
  /\ UNCHANGED <<issued, now, setupVars, counter, isShuttingDown, files, flushers, saveCalls>>
  /\ IF id \notin DOMAIN missions
     THEN /\ response' = ErrorResp("submit", id, NotFoundMessage, 0)
          /\ UNCHANGED <<missions, order, isDirty, saveTimer>>
     ELSE LET mission == missions[id] IN
       IF notInProgress(mission)
       THEN /\ response' = Resp("submit", id, FALSE, NotInProgressMessage, mission.state,
                                Undefined, Undefined, "", None, None, 0)
            /\ UNCHANGED <<missions, order, isDirty, saveTimer>>
       ELSE LET maxAttempts == NullishOr(mission.config.maxAttempts, Num(DefaultMaxAttempts)).num
                attemptCounter == fromCurrentAttempt(mission.currentAttempt, maxAttempts)
            IN
         IF DidThrow(attemptCounter)
         THEN /\ response' = ErrorResp("submit", id, ExceededMessage, 0)
              /\ UNCHANGED <<missions, order, isDirty, saveTimer>>
         ELSE LET inc == increment(attemptCounter)
                  attemptNumber == inc.counter.currentAttempt
              IN
           IF inc.threw
           THEN /\ updateMission(failFields(mission, now))
                /\ response' = Resp("submit", id, FALSE, "", "", Bool(FALSE), Bool(TRUE),
                                    "Mission failed: Maximum attempts exceeded",
                                    mission.currentAttempt, None, inc.warnings)
           ELSE LET validationResult == Validate(mission.config.criteria, output, value, now) IN
             IF DidThrow(validationResult)
             THEN /\ response' = ErrorResp("submit", id, ValidationFailedMessage, inc.warnings)
                  /\ UNCHANGED <<missions, order, isDirty, saveTimer>>
             ELSE LET storedOutput == IF Len(output) > MAX_OUTPUT_LENGTH
                                      THEN SubSeq(output, 1, MAX_OUTPUT_LENGTH) \o TruncationMarker
                                      ELSE output
                      attempt == [attemptNumber |-> attemptNumber, timestamp |-> now,
                                  output |-> storedOutput, value |-> value,
                                  validationResult |-> validationResult]
                      recorded == recordAttempt(mission, attempt, attemptNumber, now)
                  IN
               IF validationResult.passed
               THEN /\ updateMission(completeFields(recorded, now))
                    /\ response' = Resp("submit", id, TRUE, "", "", Bool(TRUE), Bool(TRUE),
                                        "Mission completed successfully!", attemptNumber, None,
                                        inc.warnings)
               ELSE /\ updateMission(recorded)
                    /\ response' = Resp("submit", id, TRUE, "", "", Bool(FALSE), Bool(FALSE),
                                        "Attempt failed validation. Please try again.", None,
                                        getRemainingAttempts(inc.counter), inc.warnings)

AbortMission(id, reason) ==
  /\ UNCHANGED <<issued, now, setupVars, counter, isShuttingDown, files, flushers, saveCalls>>
  /\ IF id \notin DOMAIN missions
     THEN /\ response' = ErrorResp("abort", id, NotFoundMessage, 0)
          /\ UNCHANGED <<missions, order, isDirty, saveTimer>>
     ELSE LET mission == missions[id] IN
       IF abortRejected(mission)
       THEN /\ response' = Resp("abort", id, FALSE, CannotAbortMessage, mission.state,
                                Undefined, Undefined, "", None, None, 0)
            /\ UNCHANGED <<missions, order, isDirty, saveTimer>>
       ELSE /\ updateMission(abortFields(mission, reason, now))
            /\ response' = Resp("abort", id, TRUE, "", "", Undefined, Undefined,
                                "has been aborted", mission.currentAttempt, None, 0)

GetMissionStatus(id) ==
  /\ UNCHANGED <<missions, order, issued, now, setupVars, counter, persistVars>>
  /\ IF id \notin DOMAIN missions
     THEN response' = ErrorResp("status", id, NotFoundMessage, 0)
     ELSE LET mission == missions[id]
              maxAttempts == NullishOr(mission.config.maxAttempts, Num(DefaultMaxAttempts)).num
          IN  response' = Resp("status", id, TRUE, "", mission.state, Undefined, Undefined, "",
                               mission.currentAttempt, maxAttempts - mission.currentAttempt, 0)

(***************************************************************************)
(* Direct calls of the store.                                              *)
(***************************************************************************)
\* StateManager.updateMission with the stored mission object, or with a
\* mission object of an id the store does not hold
UpdateMission(id) ==
  /\ UNCHANGED <<issued, now, setupVars, counter, isShuttingDown, files, flushers, saveCalls>>
  /\ IF id \notin DOMAIN missions
     THEN /\ response' = ErrorResp("update", id, NotFoundMessage, 0)
          /\ UNCHANGED <<missions, order, isDirty, saveTimer>>
     ELSE /\ updateMission(missions[id])
          /\ response' = Resp("update", id, TRUE, "", "", Undefined, Undefined, "", None, None, 0)

\* addMission that sets the map entry without looking for the id
AddMission_overwrites(id, maxAttempts) ==
  LET mission == defineMission(id, CallerCriteria, maxAttempts, now)
  IN  /\ UNCHANGED <<issued, now, setupVars, counter, isShuttingDown, files, flushers, saveCalls>>
      /\ missions' = [i \in DOMAIN missions \cup {id} |->
                        IF i = id THEN mission ELSE missions[i]]
      /\ order' = IF id \in DOMAIN missions THEN order ELSE Append(order, id)
      /\ debouncedSave
      /\ response' = Resp("add", id, TRUE, "", "", Undefined, Undefined, "", None, None, 0)

\* StateManager.addMission with a mission object the caller built, of the
\* id and maxAttempts given
AddMission(id, maxAttempts) ==
  LET mission == defineMission(id, CallerCriteria, maxAttempts, now)
  IN  /\ UNCHANGED <<issued, now, setupVars, counter, isShuttingDown, files, flushers, saveCalls>>
      /\ IF id \in DOMAIN missions
         THEN /\ response' = ErrorResp("add", id, MissionExistsMessage, 0)
              /\ UNCHANGED <<missions, order, isDirty, saveTimer>>
         ELSE /\ missions' = [i \in DOMAIN missions \cup {id} |->
                                IF i = id THEN mission ELSE missions[i]]
              /\ order' = Append(order, id)
              /\ debouncedSave
              /\ response' = Resp("add", id, TRUE, "", "", Undefined, Undefined, "", None, None, 0)

\* mutant: the save is scheduled whether or not the id was present
DeleteMission_alwaysSaves(id) ==
  /\ UNCHANGED <<issued, now, setupVars, counter, isShuttingDown, files, flushers, saveCalls>>
  /\ debouncedSave
  /\ IF id \notin DOMAIN missions
     THEN /\ response' = ErrorResp("delete", id, NotFoundMessage, 0)
          /\ UNCHANGED <<missions, order>>
     ELSE /\ missions' = [i \in DOMAIN missions \ {id} |-> missions[i]]
          /\ order' = RemoveId(order, id)
          /\ response' = Resp("delete", id, TRUE, "", "", Undefined, Undefined, "", None, None, 0)

DeleteMission(id) ==
  /\ UNCHANGED <<issued, now, setupVars, counter, isShuttingDown, files, flushers, saveCalls>>
  /\ IF id \notin DOMAIN missions
     THEN /\ response' = ErrorResp("delete", id, NotFoundMessage, 0)
          /\ UNCHANGED <<missions, order, isDirty, saveTimer>>
     ELSE /\ missions' = [i \in DOMAIN missions \ {id} |-> missions[i]]
          /\ order' = RemoveId(order, id)
          /\ debouncedSave
          /\ response' = Resp("delete", id, TRUE, "", "", Undefined, Undefined, "", None, None, 0)

\* cleanupOldMissions: days between completedAt and the call (the clock
\* counts days wherever the sweep is called)
daysOld(mission) == now - mission.completedAt

\* a sweep that applies the retention window of completed missions to
\* failed ones too
shouldDelete_oneWindow(mission) ==
  /\ mission.state \in {COMPLETED, FAILED}
  /\ mission.completedAt # NoDate
  /\ daysOld(mission) > completedRetentionDays

\* mutant: an aborted mission is swept like a failed one
shouldDelete_abortedToo(mission) ==
  IF mission.state = COMPLETED /\ mission.completedAt # NoDate
  THEN daysOld(mission) > completedRetentionDays
  ELSE IF mission.state \in {FAILED, ABORTED} /\ mission.completedAt # NoDate
       THEN daysOld(mission) > failedRetentionDays
       ELSE FALSE

\* cleanupOldMissions: shouldDelete of one mission
shouldDelete(mission) ==
  IF mission.state = COMPLETED /\ mission.completedAt # NoDate
  THEN daysOld(mission) > completedRetentionDays
  ELSE IF mission.state = FAILED /\ mission.completedAt # NoDate
       THEN daysOld(mission) > failedRetentionDays
       ELSE FALSE

\* cleanupOldMissions: the loop over missions.values(), from the i-th
\* mission of the insertion order on; kept is what the map holds so far
RECURSIVE sweep(_, _, _)
sweep(i, kept, deleted) ==
  IF i > Len(order) THEN [order |-> kept, deleted |-> deleted]
  ELSE IF shouldDelete(missions[order[i]])
       THEN sweep(i + 1, RemoveId(kept, order[i]), deleted + 1)
       ELSE sweep(i + 1, kept, deleted)

CleanupResp(deleted) == [tool |-> "cleanupOldMissions", success |-> TRUE, deleted |-> deleted]

\* StateManager.cleanupOldMissions
CleanupOldMissions ==
  LET swept == sweep(1, order, 0)
  IN  /\ UNCHANGED <<issued, now, setupVars, counter, isShuttingDown, files, flushers, saveCalls>>
      /\ order' = swept.order
      /\ missions' = [id \in {swept.order[i] : i \in 1..Len(swept.order)} |-> missions[id]]
      /\ response' = CleanupResp(swept.deleted)
      /\ IF swept.deleted > 0
         THEN debouncedSave
         ELSE UNCHANGED <<isDirty, saveTimer>>

\* the result of a call on an AttemptCounter: whether it returned, the
\* number it returned, and the number of warnings it logged
CounterResp(tool, success, value, warnings) ==
  [tool |-> tool, success |-> success, value |-> value, warnings |-> warnings]

\* the result of fromCurrentAttempt, with the count and the limit it was
\* called with; it logs nothing
RestoreResp(success, currentAttempt, maxAttempts) ==
  [tool |-> "fromCurrentAttempt", success |-> success, value |-> None, warnings |-> 0,
   currentAttempt |-> currentAttempt, maxAttempts |-> maxAttempts]

\* new AttemptCounter(config)
NewCounter(maxAttempts, warnThreshold) ==
  /\ counter' = AttemptCounter(maxAttempts, warnThreshold)
  /\ response' = CounterResp("new", TRUE, None, 0)
  /\ UNCHANGED <<missions, order, issued, now, setupVars, persistVars>>

\* AttemptCounter.fromCurrentAttempt(currentAttempt, config)
RestoreCounter(currentAttempt, maxAttempts, warnThreshold) ==
  LET restored == fromCurrentAttemptConfig(currentAttempt, maxAttempts, warnThreshold)
  IN  /\ IF restored = Thrown
         THEN counter' = counter /\ response' = RestoreResp(FALSE, currentAttempt, maxAttempts)
         ELSE counter' = restored /\ response' = RestoreResp(TRUE, currentAttempt, maxAttempts)
      /\ UNCHANGED <<missions, order, issued, now, setupVars, persistVars>>

\* counter.increment() on the counter the caller holds (a counter that
\* threw keeps counting)
IncrementCounter ==
  LET inc == increment(counter)
  IN  /\ counter # NoCounter
      /\ counter.currentAttempt < MaxCount
      /\ counter' = inc.counter
      /\ response' = CounterResp("increment", ~inc.threw,
                                 IF inc.threw THEN None ELSE inc.counter.currentAttempt,
                                 inc.warnings)
      /\ UNCHANGED <<missions, order, issued, now, setupVars, persistVars>>

\* validator.validate(output, value) called on the validator of the
\* criteria; the call and its result are kept as the response
ValidateCall(criteria, output, value) ==
  /\ response' = [tool |-> "validate", success |-> ~DidThrow(Validate(criteria, output, value, now)),
                  criteria |-> criteria, output |-> output, value |-> value,
                  result |-> Validate(criteria, output, value, now)]
  /\ UNCHANGED <<missions, order, issued, now, setupVars, counter, persistVars>>

\* NumericValidator.compare called with decimals of DecimalScale units
CompareCall(actual, operator, threshold) ==
  /\ response' = [tool |-> "compare", success |-> TRUE, actual |-> actual,
                  operator |-> operator, threshold |-> threshold,
                  holds |-> compareScaled(DecimalScale, actual, operator, threshold)]
  /\ UNCHANGED <<missions, order, issued, now, setupVars, counter, persistVars>>

Tick ==
  /\ now < MaxClock
  /\ now' = now + 1
  /\ UNCHANGED <<missions, order, issued, response, setupVars, counter, persistVars>>

(***************************************************************************)
(* Serialization.                                                          *)
(***************************************************************************)
STATE_VERSION == "1.0.0"

\* Date.prototype.toISOString
toISOString(t) == [iso |-> t]

serializeAttempt(attempt) ==
  [attemptNumber |-> attempt.attemptNumber,
   timestamp |-> toISOString(attempt.timestamp),
   output |-> attempt.output,
   value |-> attempt.value,
   validationResult |->
     [passed |-> attempt.validationResult.passed,
      message |-> attempt.validationResult.message,
      actualValue |-> attempt.validationResult.actualValue,
      expectedValue |-> attempt.validationResult.expectedValue,
      timestamp |-> toISOString(attempt.validationResult.timestamp)]]

serializeMission(mission) ==
  [config |-> mission.config,
   state |-> mission.state,
   createdAt |-> toISOString(mission.createdAt),
   updatedAt |-> toISOString(mission.updatedAt),
   attempts |-> [i \in 1..Len(mission.attempts) |-> serializeAttempt(mission.attempts[i])],
   currentAttempt |-> mission.currentAttempt,
   completedAt |-> IF mission.completedAt = NoDate THEN Undefined
                   ELSE toISOString(mission.completedAt),
   success |-> mission.success,
   errorMessage |-> mission.errorMessage]

\* StateManager.serializeState over the missions Map ms with key order ord,
\* at time t
serializeState(ms, ord, t) ==
  [version |-> STATE_VERSION,
   timestamp |-> toISOString(t),
   missions |-> [i \in 1..Len(ord) |-> <<ord[i], serializeMission(ms[ord[i]])>>],
   checkpoints |-> <<>>]

(***************************************************************************)
(* The state directory.  A file is absent, holds a complete snapshot, or   *)
(* is partial: created or truncated and not yet written in full.           *)
(***************************************************************************)
Absent == [absent |-> TRUE]
Partial == [partial |-> TRUE]
Full(json) == [json |-> json]
IsFull(f) == DOMAIN f = {"json"}

NoSnapshot == [version |-> "", timestamp |-> Undefined, missions |-> <<>>, checkpoints |-> <<>>]
IdleFlusher == [pc |-> "idle", origin |-> "", json |-> NoSnapshot, fd |-> "none", copy |-> Absent]

Flushers == 1..MaxFlushers
IdleSlots == {p \in Flushers : flushers[p].pc = "idle"}
InFlight == Flushers \ IdleSlots

\* the synchronous head of StateManager.saveState: serialize, then issue
\* the write of the temp file
StartSave(origin) ==
  /\ IdleSlots # {}
  /\ saveCalls < MaxSaves
  /\ saveCalls' = saveCalls + 1
  /\ flushers' = [flushers EXCEPT ![Min(IdleSlots)] =
                    [pc |-> "open", origin |-> origin,
                     json |-> serializeState(missions, order, now),
                     fd |-> "none", copy |-> Absent]]

\* the debounce timer fires
TimerFire ==
  /\ saveTimer # NoTimer
  /\ now >= saveTimer
  /\ saveTimer' = NoTimer
  /\ StartSave("timer")
  /\ UNCHANGED <<missions, order, issued, now, response, setupVars, counter,
                 isDirty, isShuttingDown, files>>

\* forceSave that leaves the debounce timer armed
ForceSave_keepsTimer ==
  /\ UNCHANGED <<missions, order, issued, now, setupVars, counter, isDirty, isShuttingDown,
                 files>>
  /\ IF ~enablePersistence
     THEN /\ response' = ErrorResp("forceSave", None, PersistenceFailedMessage, 0)
          /\ UNCHANGED <<saveTimer, flushers, saveCalls>>
     ELSE /\ UNCHANGED saveTimer
          /\ StartSave("force")
          /\ UNCHANGED response

\* StateManager.forceSave, up to its await
ForceSave ==
  /\ UNCHANGED <<missions, order, issued, now, setupVars, counter, isDirty, isShuttingDown,
                 files>>
  /\ IF ~enablePersistence
     THEN /\ response' = ErrorResp("forceSave", None, PersistenceFailedMessage, 0)
          /\ UNCHANGED <<saveTimer, flushers, saveCalls>>
     ELSE /\ saveTimer' = NoTimer
          /\ StartSave("force")
          /\ UNCHANGED response

\* a cleanup handler that does not look at isShuttingDown
Shutdown_reentrant ==
  /\ handlersInstalled
  /\ UNCHANGED <<missions, order, issued, now, response, setupVars, counter, isDirty, files>>
  /\ isShuttingDown' = TRUE
  /\ IF isDirty
     THEN saveTimer' = NoTimer /\ StartSave("shutdown")
     ELSE UNCHANGED <<saveTimer, flushers, saveCalls>>

\* the cleanup handler of setupShutdownHandlers (SIGINT, SIGTERM,
\* beforeExit), up to its await; the handlers are installed only when
\* persistence is enabled and loadState returned
Shutdown ==
  /\ handlersInstalled
  /\ UNCHANGED <<missions, order, issued, now, response, setupVars, counter, isDirty, files>>
  /\ IF isShuttingDown
     THEN UNCHANGED <<isShuttingDown, saveTimer, flushers, saveCalls>>
     ELSE /\ isShuttingDown' = TRUE
          /\ IF isDirty
             THEN saveTimer' = NoTimer /\ StartSave("shutdown")
             ELSE UNCHANGED <<saveTimer, flushers, saveCalls>>

\* saveState throws and every caller of it only logs
SaveFails_logged(p) ==
  /\ flushers' = [flushers EXCEPT ![p] = IdleFlusher]
  /\ response' = response

\* saveState throws StatePersistenceError: a forced save hands it to the
\* caller, the timer callback and the shutdown handler log it
SaveFails(p) ==
  /\ flushers' = [flushers EXCEPT ![p] = IdleFlusher]
  /\ response' = IF flushers[p].origin = "force"
                 THEN ErrorResp("forceSave", None, PersistenceFailedMessage, 0)
                 ELSE response

\* fs.writeFile(tempFile): open with O_CREAT | O_TRUNC
WriteOpen(p, ok) ==
  /\ flushers[p].pc = "open"
  /\ UNCHANGED <<missions, order, issued, now, setupVars, counter, isDirty, saveTimer,
                 isShuttingDown, saveCalls>>
  /\ IF ok
     THEN /\ files' = [files EXCEPT !.tmp = Partial]
          /\ flushers' = [flushers EXCEPT ![p].pc = "write", ![p].fd = "tmp"]
          /\ UNCHANGED response
     ELSE /\ UNCHANGED files
          /\ SaveFails(p)

\* the file a write through the descriptor of p ends up as
Written(f, json) ==
  IF f = Partial \/ f = Full(json) THEN {Full(json)} ELSE {Full(json), Partial}

\* fs.writeFile(tempFile): write the data through the open descriptor and
\* close it; the descriptor follows its file through a rename
WriteData(p, ok) ==
  /\ flushers[p].pc = "write"
  /\ UNCHANGED <<missions, order, issued, now, setupVars, counter, isDirty, saveTimer,
                 isShuttingDown, saveCalls>>
  /\ IF ok
     THEN /\ IF flushers[p].fd = "orphan"
             THEN UNCHANGED files
             ELSE \E f \in Written(files[flushers[p].fd], flushers[p].json) :
                    files' = [files EXCEPT ![flushers[p].fd] = f]
          /\ flushers' = [flushers EXCEPT ![p].pc = "access", ![p].fd = "none"]
          /\ UNCHANGED response
     ELSE /\ UNCHANGED files
          /\ SaveFails(p)

\* fs.access(stateFile) and the start of fs.copyFile(stateFile, backupFile);
\* an error of either is swallowed
BackupStart(p, ok) ==
  /\ flushers[p].pc = "access"
  /\ UNCHANGED <<missions, order, issued, now, response, setupVars, counter, isDirty,
                 saveTimer, isShuttingDown, saveCalls>>
  /\ IF ok /\ files.state # Absent
     THEN /\ files' = [files EXCEPT !.bak = Partial]
          /\ flushers' = [flushers EXCEPT ![p].pc = "copy", ![p].copy = files.state]
     ELSE /\ UNCHANGED files
          /\ flushers' = [flushers EXCEPT ![p].pc = "rename"]

\* the end of fs.copyFile
BackupEnd(p, ok) ==
  /\ flushers[p].pc = "copy"
  /\ UNCHANGED <<missions, order, issued, now, response, setupVars, counter, isDirty,
                 saveTimer, isShuttingDown, saveCalls>>
  /\ files' = IF ok THEN [files EXCEPT !.bak = flushers[p].copy] ELSE files
  /\ flushers' = [flushers EXCEPT ![p].pc = "rename", ![p].copy = Absent]

\* where an open descriptor points after the rename of tmp over state
AfterRename(fd) ==
  CASE fd = "tmp" -> "state" [] fd = "state" -> "orphan" [] OTHER -> fd

\* fs.rename(tempFile, stateFile)
Rename(p, ok) ==
  /\ flushers[p].pc = "rename"
  /\ UNCHANGED <<missions, order, issued, now, setupVars, counter, isDirty, saveTimer,
                 isShuttingDown, saveCalls>>
  /\ IF ok /\ files.tmp # Absent
     THEN /\ files' = [files EXCEPT !.state = files.tmp, !.tmp = Absent]
          /\ flushers' = [q \in Flushers |->
                            IF q = p THEN [flushers[q] EXCEPT !.pc = "finish"]
                            ELSE [flushers[q] EXCEPT !.fd = AfterRename(@)]]
          /\ UNCHANGED response
     ELSE /\ UNCHANGED files
          /\ SaveFails(p)

\* the rest of saveState after the rename
SaveFinish(p) ==
  /\ flushers[p].pc = "finish"
  /\ isDirty' = FALSE
  /\ UNCHANGED saveCalls
  /\ flushers' = [flushers EXCEPT ![p] = IdleFlusher]
  /\ response' = IF flushers[p].origin = "force"
                 THEN Resp("forceSave", None, TRUE, "", "", Undefined, Undefined, "", None, None, 0)
                 ELSE response
  /\ UNCHANGED <<missions, order, issued, now, setupVars, counter, saveTimer,
                 isShuttingDown, files>>

(***************************************************************************)
(* Loading.  JSON.stringify leaves out a property whose value is undefined *)
(* and reading a property a parsed object lacks yields undefined, so a     *)
(* property holding Undefined stands for both.  A parsed file is a record: *)
(* a snapshot, a snapshot that lost properties, or a JSON value that is no *)
(* object.                                                                 *)
(***************************************************************************)
Null == [null |-> TRUE]
JsonNull == [jsonNull |-> TRUE]     \* the JSON text null
JsonZero == [jsonZero |-> TRUE]     \* the JSON text 0
Has(obj, field) == field \in DOMAIN obj
Without(obj, field) == [f \in DOMAIN obj \ {field} |-> obj[f]]

\* new Date(isoString)
parseDate(iso) == iso.iso

deserializeAttempt(serialized) ==
  [attemptNumber |-> serialized.attemptNumber,
   timestamp |-> parseDate(serialized.timestamp),
   output |-> serialized.output,
   value |-> serialized.value,
   validationResult |->
     [passed |-> serialized.validationResult.passed,
      actualValue |-> serialized.validationResult.actualValue,
      expectedValue |-> serialized.validationResult.expectedValue,
      message |-> serialized.validationResult.message,
      timestamp |-> parseDate(serialized.validationResult.timestamp)]]

\* deserializeMission throws (serialized.attempts.map of undefined)
deserializeMissionThrows(serialized) == ~Has(serialized, "attempts")

\* mutant: completedAt is not restored
deserializeMission_noCompletedAt(serialized) ==
  [config |-> serialized.config,
   state |-> serialized.state,
   createdAt |-> parseDate(serialized.createdAt),
   updatedAt |-> parseDate(serialized.updatedAt),
   attempts |-> [i \in 1..Len(serialized.attempts) |-> deserializeAttempt(serialized.attempts[i])],
   currentAttempt |-> serialized.currentAttempt,
   completedAt |-> NoDate,
   success |-> serialized.success,
   errorMessage |-> serialized.errorMessage]

deserializeMission(serialized) ==
  [config |-> serialized.config,
   state |-> serialized.state,
   createdAt |-> parseDate(serialized.createdAt),
   updatedAt |-> parseDate(serialized.updatedAt),
   attempts |-> [i \in 1..Len(serialized.attempts) |-> deserializeAttempt(serialized.attempts[i])],
   currentAttempt |-> serialized.currentAttempt,
   completedAt |-> IF Truthy(serialized.completedAt) THEN parseDate(serialized.completedAt)
                   ELSE NoDate,
   success |-> serialized.success,
   errorMessage |-> serialized.errorMessage]

\* Map.prototype.set on the Map ms with key order ord
MapSet(store, id, mission) ==
  [missions |-> [i \in DOMAIN store.missions \cup {id} |->
                   IF i = id THEN mission ELSE store.missions[i]],
   order |-> IF id \in DOMAIN store.missions THEN store.order ELSE Append(store.order, id),
   threw |-> FALSE]

EmptyStore == [missions |-> <<>>, order |-> <<>>, threw |-> FALSE]

\* the loop of deserializeState over serialized.missions from entry i on
RECURSIVE restoreMissions(_, _, _)
restoreMissions(entries, i, store) ==
  IF i > Len(entries) THEN store
  ELSE IF deserializeMissionThrows(entries[i][2]) THEN [store EXCEPT !.threw = TRUE]
  ELSE restoreMissions(entries, i + 1,
                       MapSet(store, entries[i][1], deserializeMission(entries[i][2])))

\* StateManager.deserializeState on a fresh instance: the Map after the
\* call, and whether the call threw
deserializeState(serialized) ==
  IF ~Has(serialized, "missions") THEN [EmptyStore EXCEPT !.threw = TRUE]
  ELSE LET restored == restoreMissions(serialized.missions, 1, EmptyStore)
       IN  IF restored.threw THEN restored
           ELSE IF ~Has(serialized, "checkpoints") THEN [restored EXCEPT !.threw = TRUE]
           ELSE restored

\* StateManager.tryLoadStateFile: the parsed value, or Null
tryLoadStateFile(f) ==
  IF ~IsFull(f) THEN Null
  ELSE IF f.json = JsonNull THEN Null
  ELSE f.json

\* the operand of the ! of loadState is falsy
Falsy(parsed) == parsed = Null \/ parsed = JsonZero

\* mutant: the backup file is not tried
loadState_noBackup(dir) ==
  LET serialized == tryLoadStateFile(dir.state)
  IN  IF Falsy(serialized) THEN EmptyStore ELSE deserializeState(serialized)

\* StateManager.loadState on a fresh instance
loadState(dir) ==
  LET first == tryLoadStateFile(dir.state)
      serialized == IF Falsy(first) THEN tryLoadStateFile(dir.bak) ELSE first
  IN  IF Falsy(serialized) THEN EmptyStore ELSE deserializeState(serialized)

\* what a file of the state directory can be turned into between two runs
Damages == {"keep", "delete", "garbage", "null", "zero", "noMissions", "noCheckpoints",
            "noAttempts"}

\* the snapshot json with the attempts of its last mission cut out
DropLastAttempts(json) ==
  IF ~Has(json, "missions") THEN json
  ELSE IF Len(json.missions) = 0 THEN json
  ELSE [json EXCEPT !.missions[Len(json.missions)] = <<@[1], Without(@[2], "attempts")>>]

Damaged(f, damage) ==
  CASE damage = "keep" -> f
    [] damage = "delete" -> Absent
    [] damage = "garbage" -> Partial
    [] damage = "null" -> Full(JsonNull)
    [] damage = "zero" -> Full(JsonZero)
    [] damage = "noMissions" -> IF IsFull(f) THEN Full(Without(f.json, "missions")) ELSE f
    [] damage = "noCheckpoints" -> IF IsFull(f) THEN Full(Without(f.json, "checkpoints")) ELSE f
    [] damage = "noAttempts" -> IF IsFull(f) THEN Full(DropLastAttempts(f.json)) ELSE f

\* mutant: the error of loadState is not caught
initializePersistenceThrows_uncaught(loaded) == loaded.threw

\* StateManager.initializePersistence throws to StateManager.create
initializePersistenceThrows(loaded) == FALSE

\* The process ends, the state directory is left as it is or damaged, and
\* StateManager.create builds the instance of the next process.
Restart(damageState, damageBak) ==
  LET dir == [files EXCEPT !.state = Damaged(@, damageState), !.bak = Damaged(@, damageBak)]
      loaded == IF enablePersistence THEN loadState(dir) ELSE EmptyStore
  IN  /\ files' = dir
      /\ UNCHANGED <<issued, now, counter, enablePersistence, completedRetentionDays,
                     failedRetentionDays, saveCalls>>
      /\ isDirty' = FALSE
      /\ saveTimer' = NoTimer
      /\ isShuttingDown' = FALSE
      /\ flushers' = [p \in Flushers |-> IdleFlusher]
      /\ IF initializePersistenceThrows(loaded)
         THEN /\ missions' = <<>>
              /\ order' = <<>>
              /\ handlersInstalled' = FALSE
              /\ response' = ErrorResp("create", None, PersistenceFailedMessage, 0)
         ELSE /\ missions' = loaded.missions
              /\ order' = loaded.order
              /\ handlersInstalled' = (enablePersistence /\ ~loaded.threw)
              /\ response' = Resp("create", None, TRUE, "", "", Undefined, Undefined, "",
                                  None, None, 0)

(***************************************************************************)
(* Specification.                                                          *)
(***************************************************************************)
\* the retention windows, in days, of the instance of Init (one tick of
\* the clock is one day for the retention sweep)
CompletedRetention == 0
FailedRetention == 1

NoResponse == Resp("", None, TRUE, "", "", Undefined, Undefined, "", None, None, 0)

Init ==
  /\ missions = <<>>
  /\ order = <<>>
  /\ issued = 0
  /\ now = 0
  /\ response = NoResponse
  /\ counter = NoCounter
  /\ enablePersistence \in BOOLEAN
  /\ completedRetentionDays = CompletedRetention
  /\ failedRetentionDays = FailedRetention
  /\ handlersInstalled = enablePersistence
  /\ isDirty = FALSE
  /\ saveTimer = NoTimer
  /\ isShuttingDown = FALSE
  /\ files = [state |-> Absent, tmp |-> Absent, bak |-> Absent]
  /\ flushers = [p \in Flushers |-> IdleFlusher]
  /\ saveCalls = 0

Flush ==
  \/ \E p \in Flushers, ok \in BOOLEAN : WriteOpen(p, ok)
  \/ \E p \in Flushers, ok \in BOOLEAN : WriteData(p, ok)
  \/ \E p \in Flushers, ok \in BOOLEAN : BackupStart(p, ok)
  \/ \E p \in Flushers, ok \in BOOLEAN : BackupEnd(p, ok)
  \/ \E p \in Flushers, ok \in BOOLEAN : Rename(p, ok)
  \/ \E p \in Flushers : SaveFinish(p)

\* every operation, for one mission with one attempt allowed
Next ==
  \/ \E d \in StoreDefineInputs : issued = 0 /\ DefineMission(d[1], d[2], Num(1))
  \/ \E a \in StoreSubmitInputs : SubmitAttempt(1, a[1], a[2])
  \/ AbortMission(1, Undefined)
  \/ GetMissionStatus(1)
  \/ UpdateMission(1)
  \/ DeleteMission(1)
  \/ Tick
  \/ TimerFire
  \/ ForceSave
  \/ Shutdown
  \/ Flush

Spec == Init /\ [][Next]_vars

\* the calls on missions and on the store, over the wider requests
LifecycleNext ==
  \/ \E d \in DefineInputs, n \in MaxAttemptsInputs :
        (issued < MaxMissions \/ ~Accepted(d[1], d[2])) /\ DefineMission(d[1], d[2], n)
  \/ \E id \in MissionIds, a \in SubmitInputs : SubmitAttempt(id, a[1], a[2])
  \/ \E id \in MissionIds, r \in AbortReasons : AbortMission(id, r)
  \/ \E id \in MissionIds : GetMissionStatus(id)
  \/ \E id \in MissionIds : UpdateMission(id)
  \/ \E id \in MissionIds : DeleteMission(id)
  \/ Tick

LifecycleSpec == Init /\ [][LifecycleNext]_vars

\* requests of the recovery specification
RecoveryDefineInputs ==
  { <<"NUMERIC", CriteriaData(Str(">"), Num(100), Undefined, Undefined, Undefined, Undefined)>> }
RecoverySubmitInputs == { << <<"o", "k">>, Num(150) >> }
IssuedIds == 1..MaxIssued

\* the steps of a saveState execution whose I/O succeeds
FlushOk ==
  \/ \E p \in Flushers : WriteOpen(p, TRUE)
  \/ \E p \in Flushers : WriteData(p, TRUE)
  \/ \E p \in Flushers : BackupStart(p, TRUE)
  \/ \E p \in Flushers : BackupEnd(p, TRUE)
  \/ \E p \in Flushers : Rename(p, TRUE)
  \/ \E p \in Flushers : SaveFinish(p)

\* a mission is defined, attempted and aborted, the store is saved by
\* forced saves the caller awaits, and the process is restarted, at any
\* point of a save, over a state directory that may have been damaged
RecoveryNext ==
  \/ \E d \in RecoveryDefineInputs : issued < MaxMissions /\ DefineMission(d[1], d[2], Num(1))
  \/ \E a \in RecoverySubmitInputs : SubmitAttempt(1, a[1], a[2])
  \/ AbortMission(1, Undefined)
  \/ Tick
  \/ InFlight = {} /\ ForceSave
  \/ FlushOk
  \/ \E ds \in Damages, db \in Damages : Restart(ds, db)

RecoverySpec == Init /\ [][RecoveryNext]_vars

\* several missions are defined, attempted and aborted, the store is saved
\* by forced saves the caller awaits, and the process is restarted over the
\* state directory as the last process left it
RoundTripNext ==
  \/ \E d \in RecoveryDefineInputs : DefineMission(d[1], d[2], Num(1))
  \/ \E id \in IssuedIds, a \in RecoverySubmitInputs : SubmitAttempt(id, a[1], a[2])
  \/ \E id \in IssuedIds : AbortMission(id, Undefined)
  \/ Tick
  \/ InFlight = {} /\ ForceSave
  \/ FlushOk
  \/ Restart("keep", "keep")

RoundTripSpec == Init /\ [][RoundTripNext]_vars

\* the retention windows an instance can be configured with, in days
RetentionDays == 0..MaxClock

RetentionInit ==
  /\ missions = <<>>
  /\ order = <<>>
  /\ issued = 0
  /\ now = 0
  /\ response = NoResponse
  /\ counter = NoCounter
  /\ enablePersistence \in BOOLEAN
  /\ completedRetentionDays \in RetentionDays
  /\ failedRetentionDays \in RetentionDays
  /\ handlersInstalled = enablePersistence
  /\ isDirty = FALSE
  /\ saveTimer = NoTimer
  /\ isShuttingDown = FALSE
  /\ files = [state |-> Absent, tmp |-> Absent, bak |-> Absent]
  /\ flushers = [p \in Flushers |-> IdleFlusher]
  /\ saveCalls = 0

RetentionSubmitInputs == { << <<"o", "k">>, Num(150) >>, << <<"n", "o">>, Num(50) >> }

\* the sweep over up to MaxIssued missions, each completed, failed,
\* aborted or still in progress, at any age
RetentionNext ==
  \/ \E d \in RecoveryDefineInputs : DefineMission(d[1], d[2], Num(1))
  \/ \E id \in IssuedIds, a \in RetentionSubmitInputs : SubmitAttempt(id, a[1], a[2])
  \/ \E id \in IssuedIds : AbortMission(id, Undefined)
  \/ Tick
  \/ CleanupOldMissions

RetentionSpec == RetentionInit /\ [][RetentionNext]_vars

\* configurations and counts an AttemptCounter is made with
CounterLimits == -1..MaxLimit
WarnThresholds == {Undefined, Num(0), Num(1)}
RestoreCounts == -1..(MaxLimit + 1)
CounterSubmitInputs == { << <<"n", "o">>, Num(50) >> }

\* an AttemptCounter constructed, restored and incremented by its holder,
\* or else the counter each submit restores from the mission's count (the
\* two do not share a counter, so a run has one or the other)
CounterNext ==
  \/ \E m \in CounterLimits, w \in WarnThresholds : issued = 0 /\ NewCounter(m, w)
  \/ \E n \in RestoreCounts, m \in CounterLimits, w \in WarnThresholds :
        issued = 0 /\ RestoreCounter(n, m, w)
  \/ issued = 0 /\ IncrementCounter
  \/ \E d \in RecoveryDefineInputs, m \in 1..MaxN :
        counter = NoCounter /\ issued < MaxMissions /\ DefineMission(d[1], d[2], Num(m))
  \/ \E a \in CounterSubmitInputs : SubmitAttempt(1, a[1], a[2])

CounterSpec == Init /\ [][CounterNext]_vars

\* ids of the mission objects a caller of the store builds (the id
\* generator never hands them out)
CallerIds == (MaxIssued + 1)..(MaxIssued + 2)
CallerMaxAttempts == {Num(1), Num(2)}

\* definition requests of every shape, and the store called directly with
\* missions of chosen ids
DefinitionNext ==
  \/ \E d \in CriteriaInputs :
        (issued < MaxMissions \/ ~Accepted(d[1], d[2])) /\ DefineMission(d[1], d[2], Num(1))
  \/ \E id \in CallerIds, m \in CallerMaxAttempts : AddMission(id, m)
  \/ \E id \in CallerIds \cup {1} : DeleteMission(id)
  \/ Tick

DefinitionSpec == Init /\ [][DefinitionNext]_vars

\* calls on up to MaxIssued missions, in every interleaving
IsolationNext ==
  \/ \E d \in RecoveryDefineInputs, m \in 1..MaxN : DefineMission(d[1], d[2], Num(m))
  \/ \E id \in IssuedIds, a \in RetentionSubmitInputs : SubmitAttempt(id, a[1], a[2])
  \/ \E id \in IssuedIds : AbortMission(id, Undefined)
  \/ Tick

IsolationSpec == Init /\ [][IsolationNext]_vars

\* the criteria, outputs and explicit values validators are called with
ValidatorCriteria ==
  { parseCriteria(d[1], d[2]) : d \in
      { <<"NUMERIC", CriteriaData(Str(">"), Num(100), Undefined, Undefined, Undefined, Undefined)>>,
        <<"NUMERIC", CriteriaData(Str("=="), Num(0), Undefined, Undefined, Undefined, Undefined)>>,
        <<"EXIT_CODE", CriteriaData(Undefined, Undefined, Num(0), Undefined, Undefined, Undefined)>>,
        <<"EXIT_CODE", CriteriaData(Undefined, Undefined, Num(150), Undefined, Undefined, Undefined)>>,
        <<"KEYWORD", CriteriaData(Undefined, Undefined, Undefined, Txt(<<"o", "k">>), Bool(TRUE), Undefined)>>,
        <<"KEYWORD", CriteriaData(Undefined, Undefined, Undefined, Txt(<<"o", "k">>), Bool(FALSE), Undefined)>>,
        <<"KEYWORD", CriteriaData(Undefined, Undefined, Undefined, Txt(<<"O", "k">>), Bool(TRUE), Bool(FALSE))>> } }
ValidatorOutputs == { <<"5", "0">>, <<"2", "0", "0">>, <<"0">>, <<"o", "k">>, <<"F">> }
ValidatorValues == { Undefined, Num(150), Num(0), Str("150"), Str("ok") }

ValidatorNext ==
  \/ \E c \in ValidatorCriteria, o \in ValidatorOutputs, v \in ValidatorValues : ValidateCall(c, o, v)
  \/ Tick

ValidatorSpec == Init /\ [][ValidatorNext]_vars

\* thresholds 100, 0 and -0.00003, and actual values at, next to, one
\* epsilon from and one unit from each
CompareThresholds == {100 * DecimalScale, 0, -3}
EpsilonUnits == (EpsilonNum * DecimalScale) \div EpsilonDen
CompareOffsets ==
  {-DecimalScale, -(EpsilonUnits + 1), -EpsilonUnits, -(EpsilonUnits - 1), -1, 0, 1,
   EpsilonUnits - 1, EpsilonUnits, EpsilonUnits + 1, DecimalScale}

CompareNext ==
  \/ \E t \in CompareThresholds, d \in CompareOffsets, op \in KnownOperators :
        CompareCall(t + d, op, t)
  \/ Tick

CompareSpec == Init /\ [][CompareNext]_vars

\* what state.json can be when it parses as JSON: as saved, without its
\* missions list, or with its last mission malformed
ParsingDamages == {"keep", "noMissions", "noAttempts"}

\* several missions are defined, the store is saved by forced saves the
\* caller awaits, and the process is restarted over a state directory
\* whose state.json parses
PartialLoadNext ==
  \/ \E d \in RecoveryDefineInputs : DefineMission(d[1], d[2], Num(1))
  \/ Tick
  \/ InFlight = {} /\ ForceSave
  \/ FlushOk
  \/ \E ds \in ParsingDamages : Restart(ds, "keep")

PartialLoadSpec == Init /\ [][PartialLoadNext]_vars

\* mission 1 is defined before the termination hook runs and mission 2
\* after it; mission 1 is attempted, mission 2 updated and deleted, the
\* timer fires, saves are forced, and every file operation succeeds
ShutdownNext ==
  \/ \E d \in RecoveryDefineInputs :
        ((issued = 0 /\ ~isShuttingDown) \/ (issued = 1 /\ isShuttingDown))
          /\ DefineMission(d[1], d[2], Num(1))
  \/ \E a \in RecoverySubmitInputs : SubmitAttempt(1, a[1], a[2])
  \/ UpdateMission(2)
  \/ DeleteMission(2)
  \/ Tick
  \/ TimerFire
  \/ ForceSave
  \/ Shutdown
  \/ FlushOk

ShutdownSpec == Init /\ [][ShutdownNext]_vars

\* the state directory the last successful save of an earlier run left: one
\* mission in progress in state.json, no temporary file, no backup
EarlierRun ==
  LET d == CHOOSE x \in RecoveryDefineInputs : TRUE
      mission == [defineMission(1, parseCriteria(d[1], d[2]), Num(MaxN), 0)
                    EXCEPT !.state = IN_PROGRESS]
  IN  [state |-> Full(serializeState([i \in {1} |-> mission], <<1>>, 0)),
       tmp |-> Absent, bak |-> Absent]

\* StateManager.create with persistence enabled over that directory
CrashInit ==
  /\ missions = loadState(EarlierRun).missions
  /\ order = loadState(EarlierRun).order
  /\ issued = 1
  /\ now = 0
  /\ response = NoResponse
  /\ counter = NoCounter
  /\ enablePersistence = TRUE
  /\ completedRetentionDays = CompletedRetention
  /\ failedRetentionDays = FailedRetention
  /\ handlersInstalled = TRUE
  /\ isDirty = FALSE
  /\ saveTimer = NoTimer
  /\ isShuttingDown = FALSE
  /\ files = EarlierRun
  /\ flushers = [p \in Flushers |-> IdleFlusher]
  /\ saveCalls = 0

\* the mission is attempted, the store is saved by the debounce timer and
\* by forced saves that nobody waits for, every file operation succeeds,
\* and the process stops at any step and is started again over the state
\* directory as it is
CrashNext ==
  \/ \E a \in RetentionSubmitInputs : SubmitAttempt(1, a[1], a[2])
  \/ Tick
  \/ TimerFire
  \/ ForceSave
  \/ FlushOk
  \/ Restart("keep", "keep")

CrashSpec == CrashInit /\ [][CrashNext]_vars

\* StateManager.create with persistence enabled and an empty state directory
DurabilityInit == Init /\ enablePersistence

\* a mission is added, updated and deleted while the clock leaves room for
\* the debounce timer and the run for one more save; the timer fires,
\* forced saves are started, and every file operation succeeds
DurabilityNext ==
  \/ \E d \in RecoveryDefineInputs :
        now < MaxClock /\ saveCalls < MaxSaves /\ DefineMission(d[1], d[2], Num(MaxN))
  \/ \E a \in RetentionSubmitInputs :
        now < MaxClock /\ saveCalls < MaxSaves /\ SubmitAttempt(1, a[1], a[2])
  \/ now < MaxClock /\ saveCalls < MaxSaves /\ DeleteMission(1)
  \/ Tick
  \/ TimerFire
  \/ ForceSave
  \/ FlushOk

\* time passes, a timer that is due fires, and a file operation that was
\* issued completes
DurabilitySpec ==
  DurabilityInit /\ [][DurabilityNext]_vars
    /\ WF_vars(Tick) /\ WF_vars(TimerFire) /\ WF_vars(FlushOk)

(***************************************************************************)
(* Properties.                                                             *)
(***************************************************************************)
MaxOf(mission) == NullishOr(mission.config.maxAttempts, Num(DefaultMaxAttempts)).num
ValidationOf(mission, a) == Validate(mission.config.criteria, a[1], a[2], now)
FailsValidation(mission, a) ==
  IF DidThrow(ValidationOf(mission, a)) THEN FALSE ELSE ~ValidationOf(mission, a).passed
PassesValidation(mission, a) ==
  IF DidThrow(ValidationOf(mission, a)) THEN FALSE ELSE ValidationOf(mission, a).passed
AllFailed(mission) ==
  \A i \in 1..Len(mission.attempts) : ~mission.attempts[i].validationResult.passed

\* C1: for a mission with maxAttempts = N >= 1, a submit that fails
\* validation while fewer than N attempts are recorded records the attempt
\* and leaves the mission IN_PROGRESS, and the submit that follows N recorded
\* failing attempts returns an error result (success = false, passed =
\* false), records nothing and moves the mission to FAILED with success =
\* false and errorMessage "Maximum attempts exceeded".
C1_MaxAttemptsBoundary ==
  [][\A id \in DOMAIN missions, a \in SubmitInputs :
       (/\ SubmitAttempt(id, a[1], a[2])
        /\ missions[id].state = IN_PROGRESS
        /\ MaxOf(missions[id]) >= 1)
       => /\ (missions[id].currentAttempt < MaxOf(missions[id]) /\ FailsValidation(missions[id], a))
             => /\ missions'[id].state = IN_PROGRESS
                /\ Len(missions'[id].attempts) = Len(missions[id].attempts) + 1
          /\ (Len(missions[id].attempts) = MaxOf(missions[id]) /\ AllFailed(missions[id]))
             => /\ missions'[id].state = FAILED
                /\ missions'[id].success = Bool(FALSE)
                /\ missions'[id].errorMessage = Str(MaxAttemptsMessage)
                /\ missions'[id].attempts = missions[id].attempts
                /\ response'.success = FALSE
                /\ response'.passed = Bool(FALSE)]_vars

\* C1 witness: a mission with maxAttempts = 2 has failed after two recorded
\* failing attempts, and the last call was the submit that failed it
C1_Witness ==
  \E id \in DOMAIN missions :
     /\ MaxOf(missions[id]) = 2
     /\ Len(missions[id].attempts) = 2
     /\ AllFailed(missions[id])
     /\ missions[id].state = FAILED
     /\ response.tool = "submit" /\ response.missionId = id /\ response.final = Bool(TRUE)

\* C2 as stated: for a mission with maxAttempts = 1, once the first attempt
\* is recorded the mission is in a terminal state, whether the validation
\* passed or failed.
C2_FirstSubmitTerminal ==
  \A id \in DOMAIN missions :
     (MaxOf(missions[id]) = 1 /\ Len(missions[id].attempts) >= 1)
     => missions[id].state \in TerminalStates

\* C2 amended: for a mission with maxAttempts = 1, the submit that records
\* the first attempt succeeds and leaves the mission COMPLETED if the
\* validation passed and IN_PROGRESS if it failed; every submit after an
\* attempt is recorded is rejected (success = false, nothing recorded) and
\* leaves the mission in a terminal state.
C2_SingleAttempt ==
  [][\A id \in DOMAIN missions, a \in SubmitInputs :
       (SubmitAttempt(id, a[1], a[2]) /\ MaxOf(missions[id]) = 1)
       => /\ (/\ missions[id].state = IN_PROGRESS
              /\ Len(missions[id].attempts) = 0
              /\ ~DidThrow(ValidationOf(missions[id], a)))
             => /\ response'.success = TRUE
                /\ Len(missions'[id].attempts) = 1
                /\ missions'[id].state =
                     IF PassesValidation(missions[id], a) THEN COMPLETED ELSE IN_PROGRESS
          /\ Len(missions[id].attempts) >= 1
             => /\ response'.success = FALSE
                /\ missions'[id].attempts = missions[id].attempts
                /\ missions'[id].state \in TerminalStates]_vars

\* C2 witness: a mission with maxAttempts = 1 whose only attempt failed has
\* been moved to FAILED by the second submit
C2_Witness ==
  \E id \in DOMAIN missions :
     /\ MaxOf(missions[id]) = 1
     /\ Len(missions[id].attempts) = 1
     /\ AllFailed(missions[id])
     /\ missions[id].state = FAILED
     /\ response.tool = "submit" /\ response.missionId = id /\ ~response.success

\* C3: an abort of a mission whose state is COMPLETED, FAILED or ABORTED is
\* rejected and leaves state, completedAt, success and errorMessage as they
\* were.
C3_AbortTerminalRejected ==
  [][\A id \in DOMAIN missions, r \in AbortReasons :
       (AbortMission(id, r) /\ missions[id].state \in TerminalStates)
       => /\ response'.success = FALSE
          /\ missions'[id].state = missions[id].state
          /\ missions'[id].completedAt = missions[id].completedAt
          /\ missions'[id].success = missions[id].success
          /\ missions'[id].errorMessage = missions[id].errorMessage]_vars

AllowedTransitions ==
  { <<PENDING, IN_PROGRESS>>, <<IN_PROGRESS, IN_PROGRESS>>, <<IN_PROGRESS, COMPLETED>>,
    <<IN_PROGRESS, FAILED>>, <<IN_PROGRESS, ABORTED>> }

\* C4: in every step a stored mission keeps its state or takes one of
\* PENDING -> IN_PROGRESS, IN_PROGRESS -> COMPLETED, IN_PROGRESS -> FAILED,
\* IN_PROGRESS -> ABORTED, so a terminal state is never left; a mission
\* enters the store IN_PROGRESS under an id that was never used before.
C4_MonotonicTransitions ==
  [][/\ \A id \in DOMAIN missions \cap DOMAIN missions' :
          \/ missions'[id].state = missions[id].state
          \/ <<missions[id].state, missions'[id].state>> \in AllowedTransitions
     /\ \A id \in DOMAIN missions' \ DOMAIN missions :
          /\ missions'[id].state = IN_PROGRESS
          /\ id > issued]_vars

\* C4 witness: an abort was rejected on a mission that had failed
C4_Witness ==
  \E id \in DOMAIN missions :
     /\ missions[id].state = FAILED
     /\ response.tool = "abort" /\ response.missionId = id /\ ~response.success

\* C5: the recorded attempts of every mission carry attemptNumber 1..k in
\* order.
C5_AttemptNumbers ==
  \A id \in DOMAIN missions :
     \A i \in 1..Len(missions[id].attempts) : missions[id].attempts[i].attemptNumber = i

\* C5 witness: a mission with MaxN recorded attempts
C5_Witness ==
  \E id \in DOMAIN missions : Len(missions[id].attempts) = MaxN /\ MaxN >= 2

\* C6: currentAttempt equals attempts.length in every stored mission.
C6_CurrentAttemptIsLength ==
  \A id \in DOMAIN missions : missions[id].currentAttempt = Len(missions[id].attempts)

\* C6 witness: a mission that went through the max-attempts-exceeded
\* transition after recording attempts
C6_Witness ==
  \E id \in DOMAIN missions :
     /\ missions[id].state = FAILED
     /\ missions[id].errorMessage = Str(MaxAttemptsMessage)
     /\ Len(missions[id].attempts) >= 1

\* C7: a submit on an IN_PROGRESS mission with attempts remaining moves the
\* mission to COMPLETED with success = true and completedAt set, and reports
\* final = true, exactly when the validation passed; when the validation
\* failed the mission stays IN_PROGRESS and the result reports passed = false
\* and final = false.
C7_SubmitOutcome ==
  [][\A id \in DOMAIN missions, a \in SubmitInputs :
       (/\ SubmitAttempt(id, a[1], a[2])
        /\ missions[id].state = IN_PROGRESS
        /\ missions[id].currentAttempt < MaxOf(missions[id]))
       => /\ (/\ missions'[id].state = COMPLETED
              /\ missions'[id].success = Bool(TRUE)
              /\ missions'[id].completedAt = now) <=> PassesValidation(missions[id], a)
          /\ missions'[id].state = COMPLETED <=> PassesValidation(missions[id], a)
          /\ response'.final = Bool(TRUE) <=> PassesValidation(missions[id], a)
          /\ FailsValidation(missions[id], a)
             => /\ missions'[id].state = IN_PROGRESS
                /\ missions'[id].success = Undefined
                /\ missions'[id].completedAt = NoDate
                /\ response'.passed = Bool(FALSE)
                /\ response'.final = Bool(FALSE)]_vars

\* C7 witness: a mission completed by a passing attempt that followed a
\* failing one
C7_Witness ==
  \E id \in DOMAIN missions :
     /\ missions[id].state = COMPLETED
     /\ Len(missions[id].attempts) = 2
     /\ ~missions[id].attempts[1].validationResult.passed
     /\ response.tool = "submit" /\ response.final = Bool(TRUE) /\ response.passed = Bool(TRUE)

\* C8: a submit on a stored mission whose state is not IN_PROGRESS is
\* rejected with the "not in progress" error naming the state, and changes
\* neither the mission nor the dirty flag nor the debounce timer.
C8_SubmitNotInProgress ==
  [][\A id \in DOMAIN missions, a \in SubmitInputs :
       (SubmitAttempt(id, a[1], a[2]) /\ missions[id].state # IN_PROGRESS)
       => /\ response'.success = FALSE
          /\ response'.error = NotInProgressMessage
          /\ response'.state = missions[id].state
          /\ UNCHANGED <<missions, order, isDirty, saveTimer>>]_vars

\* C8 witness: with persistence enabled, a submit was rejected on an
\* aborted mission after the clock had moved past the abort
C8_Witness ==
  \E id \in DOMAIN missions :
     /\ enablePersistence
     /\ missions[id].state = ABORTED
     /\ missions[id].completedAt < now
     /\ response.tool = "submit" /\ response.missionId = id
     /\ response.error = NotInProgressMessage /\ response.state = ABORTED

\* C9: submit, abort, status, update and delete on an id the store does not
\* hold fail with the NotFound error and change neither the mission map nor
\* the dirty flag nor the debounce timer.
C9_UnknownMission ==
  [][\A id \in MissionIds \ DOMAIN missions :
       (\/ \E a \in SubmitInputs : SubmitAttempt(id, a[1], a[2])
        \/ \E r \in AbortReasons : AbortMission(id, r)
        \/ GetMissionStatus(id)
        \/ UpdateMission(id)
        \/ DeleteMission(id))
       => /\ response'.success = FALSE
          /\ response'.error = NotFoundMessage
          /\ response'.missionId = id
          /\ UNCHANGED <<missions, order, isDirty, saveTimer>>]_vars

\* C9 witness: with persistence enabled and nothing to flush, a delete of
\* an unknown id was answered with NotFound
C9_Witness ==
  /\ enablePersistence
  /\ ~isDirty
  /\ response.tool = "delete"
  /\ response.error = NotFoundMessage

\* C10: the canonical snapshot file is absent or holds a complete snapshot;
\* it is never a partially written file.
C10_CanonicalNeverPartial == files.state = Absent \/ IsFull(files.state)

\* C11: when a flush replaces an existing canonical file (the snapshot of
\* the previous flush) by its own snapshot, the backup file holds the
\* snapshot it replaced, and not the one it wrote.
C11_BackupIsPreviousSnapshot ==
  [][\A p \in Flushers :
       (Rename(p, TRUE) /\ files.state # Absent /\ files.tmp # Absent)
       => /\ files'.bak = files.state
          /\ (files'.state # files.state => files'.bak # files'.state)]_vars

\* the file cannot be read as JSON: it is absent or its text does not parse
Unreadable(f) == f = Absent \/ f = Partial

\* json is a snapshot as serializeState writes it
WellFormed(json) ==
  /\ Has(json, "missions")
  /\ Has(json, "checkpoints")
  /\ \A i \in 1..Len(json.missions) : Has(json.missions[i][2], "attempts")

\* the store holds exactly the missions of the snapshot json, in its order
HoldsMissionsOf(ms, ord, json) ==
  /\ ord = [i \in 1..Len(json.missions) |-> json.missions[i][1]]
  /\ DOMAIN ms = {json.missions[i][1] : i \in 1..Len(json.missions)}
  /\ \A i \in 1..Len(json.missions) :
       serializeMission(ms[json.missions[i][1]]) = json.missions[i][2]

\* The step is a Restart or changes nothing.  Restart is the one action that
\* answers "create"; of the actions that keep that answer, Tick moves the
\* clock, ForceSave counts a call of saveState, and a step of a save leaves
\* a saveState execution in flight.
Created ==
  /\ response'.tool = "create"
  /\ now' = now
  /\ saveCalls' = saveCalls
  /\ InFlight' = {}

\* C12: when an instance is created with persistence enabled over a state
\* directory whose canonical file is absent or does not parse, the store
\* holds the mission set of the backup file if that file is a snapshot, and
\* is empty if the backup file is absent or does not parse either.
C12_BackupFallback ==
  [][(Created /\ enablePersistence /\ Unreadable(files'.state))
       => /\ (IsFull(files'.bak) /\ WellFormed(files'.bak.json))
             => HoldsMissionsOf(missions', order', files'.bak.json)
          /\ Unreadable(files'.bak) => (missions' = <<>> /\ order' = <<>>)]_vars

\* C12 witness: an instance was created over a directory whose canonical
\* file does not parse and whose backup is a snapshot with a mission, and
\* holds that mission
C12_Witness ==
  /\ response.tool = "create"
  /\ enablePersistence
  /\ files.state = Partial
  /\ IsFull(files.bak)
  /\ WellFormed(files.bak.json)
  /\ Len(files.bak.json.missions) = 1
  /\ DOMAIN missions = {1}

\* C13: StateManager.create returns an instance whatever the canonical and
\* backup files hold: absent, unparseable, or parseable but malformed.
C13_CreateNeverFails ==
  [][response'.tool = "create"
     => /\ response'.success = TRUE
        /\ DOMAIN missions' = {order'[i] : i \in 1..Len(order')}]_vars

\* C13 witness: an instance was created although deserializing the
\* canonical file threw
C13_Witness ==
  /\ response.tool = "create"
  /\ response.success
  /\ enablePersistence
  /\ IsFull(files.state)
  /\ ~Falsy(tryLoadStateFile(files.state))
  /\ ~WellFormed(files.state.json)
  /\ ~handlersInstalled

\* the canonical file holds a snapshot of the store as it is in memory
SavedAsIs ==
  /\ IsFull(files.state)
  /\ \E t \in 0..MaxClock : files.state.json = serializeState(missions, order, t)

TimerWrites ==
  {p \in Flushers : /\ flushers[p].pc = "idle"
                    /\ flushers'[p].pc = "open"
                    /\ flushers'[p].origin = "timer"}

\* A mutation made while `arming` holds replaces the pending deadline by
\* one a full delay after it and writes nothing itself; the timer callback
\* runs only once the deadline it was armed with is reached, starts one
\* saveState, leaves no timer pending, and serializes the store as it is
\* at that moment.
Burst(arming) ==
  /\ (enablePersistence /\ arming /\ missions' # missions)
       => /\ isDirty'
          /\ saveTimer' = now + SAVE_DEBOUNCE_TICKS
          /\ saveCalls' = saveCalls
  /\ \A p \in TimerWrites :
        /\ saveTimer # NoTimer
        /\ now >= saveTimer
        /\ saveTimer' = NoTimer
        /\ saveCalls' = saveCalls + 1
        /\ flushers'[p].json = serializeState(missions, order, now)

\* C15 as stated: with persistence enabled, every mutation of a burst
\* re-arms the one debounce timer, so the burst is written once, no earlier
\* than a full delay after its last mutation, with all its mutations in the
\* snapshot.
C15_BurstWhilePersisting == [][Burst(TRUE)]_vars

\* C15 amended: the same for the mutations made before the termination
\* hook has run; a mutation made afterwards arms no timer.
C15_DebouncedBurst == [][Burst(~isShuttingDown)]_vars

\* C15 witness: a mission was defined and then completed by an attempt
\* within one delay, and the one saveState started so far is the timer's,
\* with both mutations in its snapshot
C15_Witness ==
  /\ saveCalls = 1
  /\ saveTimer = NoTimer
  /\ \E p \in Flushers :
       /\ flushers[p].origin = "timer"
       /\ Len(flushers[p].json.missions) = 1
       /\ Len(flushers[p].json.missions[1][2].attempts) = 1

\* the saveState executions of the given origins that throw in the step
FailedWrites(origins) ==
  {p \in Flushers : /\ flushers[p].origin \in origins
                    /\ flushers[p].pc \notin {"idle", "finish"}
                    /\ flushers'[p] = IdleFlusher}

\* C16: when the saveState started by the debounce timer throws, no caller
\* is answered with the failure, the mission map is left as it is, and the
\* dirty flag is set afterwards.
C16_BackgroundFailureKeepsDirty ==
  [][FailedWrites({"timer"}) # {}
     => /\ response' = response
        /\ missions' = missions
        /\ order' = order
        /\ isDirty']_vars

\* the caller of forceSave is answered with a StatePersistenceError
Surfaced == response' = ErrorResp("forceSave", None, PersistenceFailedMessage, 0)

\* C17 as stated: when the saveState of forceSave or of the termination
\* hook throws, a caller is answered with a StatePersistenceError.
C17_FlushFailureSurfaced ==
  [][FailedWrites({"force", "shutdown"}) # {} => Surfaced]_vars

\* C17 amended: forceSave answers its caller with a StatePersistenceError
\* when its saveState throws and when persistence is disabled; when the
\* saveState of the termination hook throws, nobody is answered.
C17_ForcedFailureSurfaced ==
  [][/\ FailedWrites({"force"}) # {} => Surfaced
     /\ (~enablePersistence /\ response'.tool = "forceSave") => Surfaced
     /\ FailedWrites({"shutdown"}) # {} => response' = response]_vars

\* C17 witness: with persistence enabled, forceSave has answered with the
\* error of its saveState
C17_Witness ==
  /\ enablePersistence
  /\ response = ErrorResp("forceSave", None, PersistenceFailedMessage, 0)

\* the saveState executions the termination hook starts in the step
ShutdownWrites ==
  {p \in Flushers : /\ flushers[p].pc = "idle"
                    /\ flushers'[p].pc = "open"
                    /\ flushers'[p].origin = "shutdown"}

\* C18: the first run of the termination hook starts one saveState when
\* the store is dirty and none when it is clean; once the hook has run, no
\* further run of it starts a saveState.
C18_OneFinalFlush ==
  [][/\ (~isShuttingDown /\ isShuttingDown')
        => IF isDirty
           THEN Cardinality(ShutdownWrites) = 1 /\ saveCalls' = saveCalls + 1
           ELSE ShutdownWrites = {} /\ saveCalls' = saveCalls
     /\ isShuttingDown => (isShuttingDown' /\ ShutdownWrites = {})
     /\ ShutdownWrites # {} => (~isShuttingDown /\ isShuttingDown')]_vars

\* C18 witness: the hook ran on a dirty store, its one saveState has
\* finished, and the hook's flag is still set
C18_Witness ==
  /\ isShuttingDown
  /\ ~isDirty
  /\ saveCalls = 1
  /\ InFlight = {}
  /\ IsFull(files.state)
  /\ Len(files.state.json.missions) = 1

\* the saveState executions forceSave starts in the step
ForceWrites ==
  {p \in Flushers : /\ flushers[p].pc = "idle"
                    /\ flushers'[p].pc = "open"
                    /\ flushers'[p].origin = "force"}

\* C19: the step in which forceSave or the termination hook starts its
\* saveState leaves no debounce timer pending; the timer callback starts a
\* saveState only while a timer is pending, and a timer becomes pending
\* only by a later call of debouncedSave, a full delay ahead.
C19_TimerPreempted ==
  [][/\ (ForceWrites \cup ShutdownWrites) # {}
        => (saveTimer' = NoTimer /\ TimerWrites = {})
     /\ TimerWrites # {} => saveTimer # NoTimer
     /\ (saveTimer = NoTimer /\ saveTimer' # NoTimer)
        => /\ saveTimer' = now + SAVE_DEBOUNCE_TICKS
           /\ isDirty'
           /\ flushers' = flushers]_vars

\* C19 witness: a mutation armed the timer, forceSave was called while it
\* was pending, and the forced saveState, the only one started, has written
\* the mutation while no timer is pending
C19_Witness ==
  /\ saveTimer = NoTimer
  /\ saveCalls = 1
  /\ now = MaxClock
  /\ InFlight = {}
  /\ response.tool = "forceSave"
  /\ response.success
  /\ IsFull(files.state)
  /\ Len(files.state.json.missions) = 1

\* the missions the sweep has to delete: completed or failed, with a
\* completedAt older than the retention window of their state
Expired ==
  {id \in DOMAIN missions :
     /\ missions[id].completedAt # NoDate
     /\ \/ /\ missions[id].state = COMPLETED
           /\ now - missions[id].completedAt > completedRetentionDays
        \/ /\ missions[id].state = FAILED
           /\ now - missions[id].completedAt > failedRetentionDays}

\* C20: cleanupOldMissions deletes exactly the completed missions whose
\* completedAt is older than completedRetentionDays and the failed ones
\* whose completedAt is older than failedRetentionDays, leaves every other
\* mission as it is (so none that lacks completedAt or is pending, in
\* progress or aborted goes), and returns the number deleted.
C20_RetentionSweep ==
  [][CleanupOldMissions
     => /\ DOMAIN missions' = DOMAIN missions \ Expired
        /\ \A id \in DOMAIN missions' : missions'[id] = missions[id]
        /\ order' = SelectSeq(order, LAMBDA id : id \notin Expired)
        /\ response'.deleted = Cardinality(Expired)
        /\ \A id \in DOMAIN missions \ DOMAIN missions' :
              /\ missions[id].completedAt # NoDate
              /\ missions[id].state \notin {PENDING, IN_PROGRESS}]_vars

\* C20 witness: a sweep deleted one of two missions and kept the other,
\* which is completed or failed too but within its window
C20_Witness ==
  /\ response.tool = "cleanupOldMissions"
  /\ response.deleted = 1
  /\ issued = 2
  /\ Cardinality(DOMAIN missions) = 1
  /\ \A id \in DOMAIN missions : missions[id].state \in {COMPLETED, FAILED}

\* C21: increment raises currentAttempt by one; it throws exactly when
\* the new count exceeds maxAttempts, the counter keeping that count; a
\* call that returns logs one warning when 0 < maxAttempts - currentAttempt
\* <= warnThreshold for the new count, and none otherwise; a call that
\* throws logs none.
C21_Increment ==
  [][IncrementCounter
     => LET remaining == counter'.maxAttempts - counter'.currentAttempt
        IN  /\ counter'.currentAttempt = counter.currentAttempt + 1
            /\ counter'.maxAttempts = counter.maxAttempts
            /\ counter'.warnThreshold = counter.warnThreshold
            /\ response'.success = ~(counter'.currentAttempt > counter.maxAttempts)
            /\ response'.success => response'.value = counter'.currentAttempt
            /\ response'.warnings =
                 IF response'.success /\ 0 < remaining /\ remaining <= counter.warnThreshold
                 THEN 1 ELSE 0]_vars

\* C21 witness: an increment returned without a warning on a counter made
\* with the default threshold, more than that threshold away from its limit
C21_Witness ==
  /\ response.tool = "increment"
  /\ response.success
  /\ response.warnings = 0
  /\ counter.warnThreshold = DefaultWarnThreshold
  /\ counter.maxAttempts - counter.currentAttempt > DefaultWarnThreshold

\* C22: fromCurrentAttempt(n, config) returns a counter exactly when
\* 0 <= n <= maxAttempts; the counter is at n and no warning is logged; the
\* increment that follows a restore at maxAttempts throws, any increment
\* that follows a restore logs at most one warning, and so does every
\* submit, whatever the number of attempts the mission has.
C22_Restore ==
  [][/\ response'.tool = "fromCurrentAttempt"
          => /\ response'.success = (0 <= response'.currentAttempt
                                     /\ response'.currentAttempt <= response'.maxAttempts)
             /\ response'.warnings = 0
             /\ response'.success
                  => /\ counter'.currentAttempt = response'.currentAttempt
                     /\ counter'.maxAttempts = response'.maxAttempts
             /\ ~response'.success => counter' = counter
     /\ (IncrementCounter /\ response.tool = "fromCurrentAttempt" /\ response.success)
          => /\ response'.warnings \in {0, 1}
             /\ counter.currentAttempt = counter.maxAttempts => ~response'.success
     /\ \A a \in CounterSubmitInputs :
          SubmitAttempt(1, a[1], a[2]) => response'.warnings \in {0, 1}]_vars

\* C22 witness: a counter stands restored at its limit, which is at least 1
C22_Witness ==
  /\ response.tool = "fromCurrentAttempt"
  /\ response.success
  /\ response.currentAttempt = response.maxAttempts
  /\ counter.currentAttempt = counter.maxAttempts
  /\ counter.maxAttempts >= 1

\* the request lacks a field its variant requires, or carries it with
\* another type than the variant's
Malformed(strategy, criteriaData) ==
  CASE strategy = "NUMERIC" ->
         ~IsNumber(criteriaData.threshold) \/ DOMAIN criteriaData.operator # {"str"}
    [] strategy = "EXIT_CODE" -> ~IsNumber(criteriaData.expectedCode)
    [] strategy = "KEYWORD" ->
         ~IsText(criteriaData.keyword) \/ ~IsBoolean(criteriaData.mustContain)
    [] OTHER -> FALSE

\* C23: a definition request whose criteria lack a required field of their
\* variant, or carry it with the wrong type, is answered with
\* InvalidCriteria and adds no mission.
C23_MalformedCriteriaRejected ==
  [][\A d \in CriteriaInputs :
       (DefineMission(d[1], d[2], Num(1)) /\ Malformed(d[1], d[2]))
       => /\ response'.success = FALSE
          /\ response'.error = InvalidCriteriaMessage
          /\ missions' = missions]_vars

\* C24: a mission that a definition request adds to the store has
\* maxAttempts >= 1.
C24_MaxAttemptsAtLeastOne ==
  [][response'.tool = "define"
     => \A id \in DOMAIN missions' \ DOMAIN missions :
          missions'[id].config.maxAttempts.num >= 1]_vars

\* C25: addMission with an id the store holds throws AlreadyExists and
\* leaves the store, the stored mission included, as it is; addMission with
\* an id the store does not hold, one deleted just before included, stores
\* the mission under that id, after the missions already there.
C25_UniqueIds ==
  [][\A id \in CallerIds, m \in CallerMaxAttempts :
       AddMission(id, m)
       => IF id \in DOMAIN missions
          THEN /\ response'.success = FALSE
               /\ response'.error = MissionExistsMessage
               /\ missions' = missions
               /\ order' = order
          ELSE /\ response'.success = TRUE
               /\ DOMAIN missions' = DOMAIN missions \cup {id}
               /\ missions'[id].config.id = id
               /\ missions'[id].config.maxAttempts = m
               /\ \A other \in DOMAIN missions : missions'[other] = missions[other]
               /\ order' = Append(order, id)]_vars

\* C25 witness: addMission was refused for the id of the first stored
\* mission, while the mission of the other id, added at a later time, is
\* stored after it
C25_Witness ==
  /\ response.tool = "add"
  /\ ~response.success
  /\ response.error = MissionExistsMessage
  /\ response.missionId \in DOMAIN missions
  /\ order = <<MaxIssued + 2, MaxIssued + 1>>
  /\ response.missionId = MaxIssued + 2
  /\ missions[MaxIssued + 1].createdAt > missions[MaxIssued + 2].createdAt

\* every stored mission but the one of the id is stored unchanged after
\* the step, and the order of the missions is kept
OthersUntouched(id) ==
  /\ \A other \in DOMAIN missions \ {id} :
        other \in DOMAIN missions' /\ missions'[other] = missions[other]
  /\ order' = order

\* C26: a submit or an abort on one mission id leaves every field of every
\* other stored mission as it is, whatever calls came before on either.
C26_Independence ==
  [][/\ \A id \in IssuedIds, a \in RetentionSubmitInputs :
          SubmitAttempt(id, a[1], a[2]) => OthersUntouched(id)
     /\ \A id \in IssuedIds : AbortMission(id, Undefined) => OthersUntouched(id)]_vars

\* C26 witness: of two missions defined at the same time, the second was
\* completed by an attempt at a later time and the first, which has a
\* failed attempt of its own, still carries its earlier updatedAt
C26_Witness ==
  /\ DOMAIN missions = {1, 2}
  /\ response.tool = "submit"
  /\ response.missionId = 2
  /\ missions[2].state = COMPLETED
  /\ missions[2].updatedAt = MaxClock
  /\ missions[1].state = IN_PROGRESS
  /\ Len(missions[1].attempts) = 1
  /\ missions[1].updatedAt < MaxClock

\* C27: when validate is called with an explicit value, a number or a
\* string, the verdict is the one the same validator gives with that value
\* for every other output.
C27_ValuePrecedence ==
  (response.tool = "validate" /\ ~IsUndefined(response.value))
  => \A output \in ValidatorOutputs :
       Validate(response.criteria, output, response.value, now).passed = response.result.passed

Snapshots ==
  {f.json : f \in {g \in {files.state, files.bak} : IsFull(g)}}
    \cup {flushers[p].json : p \in InFlight}

\* C29: once a save has put a snapshot in place, a process that stops at
\* any step of a later save and is started again loads a complete mission
\* set, that of a snapshot an earlier save wrote or that of a snapshot
\* being written, never an empty or a partial one.
C29_CrashSafe ==
  [][(Created /\ enablePersistence /\ InFlight # {} /\ files.state # Absent)
       => \E json \in Snapshots : HoldsMissionsOf(missions', order', json)]_vars

\* state.json holds a complete snapshot of the missions in memory
Durable ==
  /\ IsFull(files.state)
  /\ HoldsMissionsOf(missions, order, files.state.json)

\* C30: with persistence enabled and every file operation succeeding, once
\* a mission has been added, updated or deleted, state.json eventually
\* holds a snapshot equal to the missions in memory (a later mutation is
\* followed by its own save).
C30_EventuallyDurable == isDirty ~> Durable

\* C31: the comparison of NumericValidator agrees with the reference for
\* the six operators: >, <, >= and <= compare actual with threshold
\* exactly, EQUAL passes iff the two are less than 0.0001 apart, NOT_EQUAL
\* iff they are at least 0.0001 apart, so exactly one of the two passes;
\* with threshold 100, EQUAL passes for 100.00001 and fails for 101.
C31_CompareAgrees ==
  response.tool = "compare" =>
    LET a == response.actual
        t == response.threshold
        op == response.operator
        near == /\ (a - t) * EpsilonDen < EpsilonNum * DecimalScale
                /\ (t - a) * EpsilonDen < EpsilonNum * DecimalScale
    IN  /\ op = ">" => (response.holds <=> a > t)
        /\ op = "<" => (response.holds <=> a < t)
        /\ op = ">=" => (response.holds <=> ~(a < t))
        /\ op = "<=" => (response.holds <=> ~(a > t))
        /\ op = "==" => (response.holds <=> near)
        /\ op = "!=" => (response.holds <=> ~near)
        /\ compareScaled(DecimalScale, a, "==", t) # compareScaled(DecimalScale, a, "!=", t)
        /\ (op = "==" /\ t = 100 * DecimalScale /\ a = 100 * DecimalScale + 1) => response.holds
        /\ (op = "==" /\ t = 100 * DecimalScale /\ a = 101 * DecimalScale) => ~response.holds

\* EQUAL with threshold 100 has passed for 100.00001
C31_Witness ==
  /\ response.tool = "compare"
  /\ response.operator = "=="
  /\ response.threshold = 100 * DecimalScale
  /\ response.actual = 100 * DecimalScale + 1
  /\ response.holds

\* the saveState executions that have opened the temporary file and have
\* not yet renamed it
BetweenWriteAndRename ==
  {p \in Flushers : flushers[p].pc \in {"write", "access", "copy", "rename"}}

\* C32: saves never overlap: no saveState execution (started by the timer,
\* forced, or at shutdown) begins writing the temporary file while another
\* one is between its own write of the temporary file and its rename.
C32_FlushesNeverOverlap == Cardinality(BetweenWriteAndRename) <= 1

\* C33: the dirty flag is accurate: with persistence enabled, whenever
\* isDirty is false and no save is in flight, state.json holds a snapshot
\* of the missions in memory (or nothing has been saved and there are
\* none); a mutation made while a save is suspended in I/O leaves the store
\* marked dirty once that save has completed.
C33_DirtyFlagAccurate ==
  (enablePersistence /\ ~isDirty /\ InFlight = {})
    => \/ Durable
       \/ files.state = Absent /\ DOMAIN missions = {}

\* C34: loading is all or nothing: when state.json parses as JSON and
\* deserializing it fails (no missions list, or a malformed mission after
\* well-formed ones), the store afterwards holds the missions of the backup
\* or none, never a part of those of state.json.
C34_LoadAllOrNothing ==
  [][(/\ Created
      /\ enablePersistence
      /\ IsFull(files'.state)
      /\ deserializeState(files'.state.json).threw)
       => \/ DOMAIN missions' = {}
          \/ /\ IsFull(files'.bak)
             /\ HoldsMissionsOf(missions', order', files'.bak.json)]_vars

\* the step changes the mission map, sets neither the dirty flag nor the
\* timer, and starts no save
SilentMutation ==
  /\ isDirty' = isDirty
  /\ saveTimer' = saveTimer
  /\ saveCalls' = saveCalls
  /\ flushers' = flushers

\* the snapshot json holds the mission id
Holds(json, id) == \E i \in 1..Len(json.missions) : json.missions[i][1] = id

\* C35 as stated: once the termination hook has begun, an add, update or
\* delete changes the map in memory, neither marks the store dirty nor arms
\* the timer, and no write is ever started for it: no save serializes
\* mission 2, which is added after the hook.
C35_NeverWrittenAfterHook ==
  /\ [][(isShuttingDown /\ missions' # missions) => SilentMutation]_vars
  /\ [](\A p \in InFlight : ~Holds(flushers[p].json, 2))

\* C35, amended: once the termination hook has begun, an add, update or
\* delete changes the map in memory, neither marks the store dirty nor arms
\* the timer, and starts no write itself.
C35_SilentAfterHook ==
  [][(isShuttingDown /\ missions' # missions) => SilentMutation]_vars

\* mission 2 was added after the hook and nothing is dirty or armed
C35_Witness ==
  /\ isShuttingDown
  /\ 2 \in DOMAIN missions
  /\ ~isDirty
  /\ saveTimer = NoTimer
  /\ InFlight = {}

C37_TerminalFields ==
  \A id \in DOMAIN missions :
     LET m == missions[id] IN
       /\ m.state = COMPLETED => (m.success = Bool(TRUE) /\ m.completedAt # NoDate)
       /\ m.state = FAILED =>
            /\ m.success = Bool(FALSE)
            /\ m.completedAt # NoDate
            /\ m.errorMessage = Str(MaxAttemptsMessage)
            /\ Num(m.currentAttempt) = NullishOr(m.config.maxAttempts, Num(DefaultMaxAttempts))
       /\ m.state = ABORTED => (m.success = Bool(FALSE) /\ m.completedAt # NoDate)
       /\ m.state = IN_PROGRESS => (m.success = Undefined /\ m.completedAt = NoDate)

\* a mission aborted after a failed attempt
C37_Witness ==
  \E id \in DOMAIN missions :
     /\ missions[id].state = ABORTED
     /\ Len(missions[id].attempts) = 1
     /\ missions[id].success = Bool(FALSE)

\* C38: in every stored mission every recorded attempt except possibly the
\* last has validationResult.passed = false, and the mission is COMPLETED
\* if and only if its last recorded attempt has passed = true.
C38_OnlyLastPasses ==
  \A id \in DOMAIN missions :
     LET attempts == missions[id].attempts
         n == Len(attempts)
     IN  /\ \A i \in 1..(n - 1) : ~attempts[i].validationResult.passed
         /\ missions[id].state = COMPLETED
              <=> (n > 0 /\ attempts[n].validationResult.passed)

\* a mission completed by its second attempt
C38_Witness ==
  \E id \in DOMAIN missions :
     /\ missions[id].state = COMPLETED
     /\ Len(missions[id].attempts) = 2
     /\ ~missions[id].attempts[1].validationResult.passed
     /\ missions[id].attempts[2].validationResult.passed

\* C39: bounded termination: no mission holds more recorded attempts than
\* its maxAttempts, and every submit on a mission in progress either ends
\* the mission or uses up one of its attempts, so that a caller who keeps
\* submitting finds the mission in a terminal state after at most
\* maxAttempts + 1 calls, whatever the validations say.
C39_BoundedTermination ==
  /\ [](\A id \in DOMAIN missions :
          Len(missions[id].attempts)
            <= NullishOr(missions[id].config.maxAttempts, Num(DefaultMaxAttempts)).num)
  /\ [][\A id \in DOMAIN missions, a \in SubmitInputs :
          (missions[id].state = IN_PROGRESS /\ SubmitAttempt(id, a[1], a[2]))
            => \/ missions'[id].state \in TerminalStates
               \/ missions'[id].currentAttempt = missions[id].currentAttempt + 1]_vars

\* C40: the retention sweep never deletes an ABORTED mission, whatever the
\* age of its completedAt: the sweep leaves it as it is, and no other step
\* short of an explicit delete takes it out of the store or out of ABORTED.
C40_AbortedKept ==
  [][\A id \in DOMAIN missions :
        missions[id].state = ABORTED
          => /\ id \in DOMAIN missions'
             /\ missions'[id].state = ABORTED
             /\ CleanupOldMissions => missions'[id] = missions[id]]_vars

\* a sweep has run over an aborted mission older than both retention
\* windows, and the mission is still there
C40_Witness ==
  /\ response.tool = "cleanupOldMissions"
  /\ \E id \in DOMAIN missions :
        /\ missions[id].state = ABORTED
        /\ missions[id].completedAt # NoDate
        /\ daysOld(missions[id]) > completedRetentionDays
        /\ daysOld(missions[id]) > failedRetentionDays

====
